---- MODULE Spec2Model ----
(***************************************************************************)
(* ai-assert-schema: the schema traversal engine (constraints/validate.ts) *)
(* and the provider registry (constraints/registry.ts), with the model     *)
(* identifier parser and the built-in provider rule sets they consume.     *)
(*                                                                         *)
(* A schema document is a graph of node objects.  A node is named by its   *)
(* identity (a number in NodeIds); two nodes with equal contents are still *)
(* two nodes.  A sub-schema slot holds either a node identity, a boolean   *)
(* schema (BoolTrue, BoolFalse) or nothing (NoRef).                        *)
(***************************************************************************)
EXTENDS Integers, Sequences, FiniteSets, TLC

\* ------------------------------------------------------------------------
\* Bounds of the model
\* ------------------------------------------------------------------------
MaxNodes == 2
MaxEdges == 2
MaxCalls == 1
MaxRegs == 3
MaxResolves == 2
MaxApiCalls == 1
MaxRepeats == 2

NodeIds == 1..MaxNodes
NoRef == -2
BoolFalse == -1
BoolTrue == 0

\* ------------------------------------------------------------------------
\* Keyword values.  A scalar keyword's value is one of these literals;
\* "absent" is JavaScript's undefined.
\* ------------------------------------------------------------------------
IsDefined(v) == v # "absent"
IsTruthy(v) == v \notin {"absent", "0", "false", "empty"}

numericKeywords ==
  <<"minimum", "maximum", "exclusiveMinimum", "exclusiveMaximum", "multipleOf">>
stringKeywords == <<"minLength", "maxLength", "pattern", "format">>

ScalarKeywords ==
  {"not", "dependentRequired", "dependentSchemas", "patternProperties",
   "propertyNames", "contains", "uniqueItems", "minItems", "maxItems", "enum",
   "additionalItems", "$ref"}
  \cup {numericKeywords[i] : i \in DOMAIN numericKeywords}
  \cup {stringKeywords[i] : i \in DOMAIN stringKeywords}

\* The values a keyword can carry in the bounded documents.
KeywordValues(k) ==
  IF k \in {"not", "dependentRequired", "dependentSchemas", "additionalItems",
            "patternProperties", "propertyNames", "contains"} THEN {"obj"}
  ELSE IF k \in {"uniqueItems", "additionalProperties"} THEN {"true", "false"}
  ELSE IF k \in {"pattern", "format"} THEN {"text", "empty"}
  ELSE IF k = "$ref" THEN {"text"}
  ELSE IF k = "enum" THEN {"prims", "complex"}
  ELSE IF k = "required" THEN {"a", "all"}
  ELSE IF k = "minItems" THEN {"0", "1", "2"}
  ELSE {"0", "1"}

EmptyNode ==
  [type |-> "none",
   kw |-> [k \in ScalarKeywords |-> "absent"],
   properties |-> <<>>, required |-> {},
   additionalProperties |-> NoRef,
   items |-> NoRef, itemsArr |-> <<>>, prefixItems |-> <<>>,
   allOf |-> <<>>, anyOf |-> <<>>, oneOf |-> <<>>,
   if |-> NoRef, then |-> NoRef, else |-> NoRef,
   defs |-> <<>>, definitions |-> <<>>]

IdxStr(i) == <<"0", "1", "2", "3", "4">>[i + 1]

\* ------------------------------------------------------------------------
\* Constraint rules and issues
\* ------------------------------------------------------------------------
Rule(f, c, m) ==
  [feature |-> f, context |-> c, message |-> m, allowedValues |-> {},
   validate |-> "none"]

\* A simple rule with allowedValues, and a custom rule: validate names the
\* rule's function.
RuleAllow(f, allowed, m) ==
  [feature |-> f, context |-> "none", message |-> m, allowedValues |-> allowed,
   validate |-> "none"]
RuleCustom(f) ==
  [feature |-> f, context |-> "none", message |-> "", allowedValues |-> {},
   validate |-> f]

Issue(p, f, m) == [path |-> p, feature |-> f, message |-> m]

\* Strings the program takes apart or compares are sequences of characters.
OPENAI == <<"o", "p", "e", "n", "a", "i">>
AZURE == <<"a", "z", "u", "r", "e">>
ANTHROPIC == <<"a", "n", "t", "h", "r", "o", "p", "i", "c">>
GOOGLE == <<"g", "o", "o", "g", "l", "e">>

\* openai/openai.ts
openaiConstraints ==
  [provider |-> OPENAI,
   unsupported |->
     <<Rule("rootAnyOf", "root", "anyOf is not supported at root level"),
       Rule("oneOf", "none",
            "oneOf is not supported (use anyOf within properties instead)"),
       Rule("allOf", "none", "allOf is not supported"),
       Rule("not", "none", "not is not supported"),
       Rule("dependentRequired", "none", "dependentRequired is not supported"),
       Rule("dependentSchemas", "none", "dependentSchemas is not supported"),
       Rule("if", "none", "if/then/else conditionals are not supported"),
       Rule("patternProperties", "none", "patternProperties is not supported"),
       RuleAllow("additionalProperties", {"false"},
                 "additionalProperties must be explicitly set to false"),
       RuleCustom("optionalProperties"),
       RuleCustom("enum")>>,
   customValidators |-> {},
   jsonSchemaTarget |-> "undefined"]

\* anthropic/anthropic.ts
anthropicConstraints ==
  [provider |-> ANTHROPIC,
   unsupported |->
     <<Rule("recursive", "none", "Recursive schemas are not supported"),
       Rule("minimum", "none", "minimum constraint is not supported"),
       Rule("maximum", "none", "maximum constraint is not supported"),
       Rule("exclusiveMinimum", "none", "exclusiveMinimum is not supported"),
       Rule("exclusiveMaximum", "none", "exclusiveMaximum is not supported"),
       Rule("multipleOf", "none", "multipleOf is not supported"),
       Rule("minLength", "none", "minLength constraint is not supported"),
       Rule("maxLength", "none", "maxLength constraint is not supported"),
       Rule("maxItems", "none", "maxItems constraint is not supported"),
       Rule("uniqueItems", "none", "uniqueItems is not supported"),
       Rule("contains", "none", "contains is not supported"),
       RuleAllow("minItems", {"0", "1"},
                 "minItems only supports values 0 and 1"),
       RuleAllow("additionalProperties", {"false"},
                 "additionalProperties must be explicitly set to false"),
       RuleCustom("enum")>>,
   customValidators |-> {},
   jsonSchemaTarget |-> "undefined"]

\* google/google.ts
googleConstraints ==
  [provider |-> GOOGLE,
   unsupported |->
     <<Rule("oneOf", "none", "oneOf is not supported (use anyOf instead)"),
       Rule("allOf", "none", "allOf is not supported"),
       Rule("not", "none", "not is not supported"),
       Rule("if", "none", "if/then/else conditionals are not supported"),
       Rule("recursive", "none", "Recursive schemas are not supported"),
       Rule("pattern", "none", "pattern constraint is not supported"),
       Rule("minLength", "none", "minLength constraint is not supported"),
       Rule("maxLength", "none", "maxLength constraint is not supported"),
       Rule("exclusiveMinimum", "none",
            "exclusiveMinimum is not supported (use minimum instead)"),
       Rule("exclusiveMaximum", "none",
            "exclusiveMaximum is not supported (use maximum instead)"),
       Rule("multipleOf", "none", "multipleOf is not supported"),
       Rule("dependentRequired", "none", "dependentRequired is not supported"),
       Rule("dependentSchemas", "none", "dependentSchemas is not supported"),
       Rule("patternProperties", "none", "patternProperties is not supported"),
       Rule("propertyNames", "none", "propertyNames is not supported"),
       Rule("uniqueItems", "none", "uniqueItems is not supported"),
       Rule("contains", "none", "contains is not supported"),
       Rule("additionalItems", "none", "additionalItems is not supported"),
       RuleCustom("enum")>>,
   customValidators |-> {},
   jsonSchemaTarget |-> "undefined"]

\* `constraints.customValidators ?? []` of ProviderRegistry.resolve: an
\* optional field is the empty set when missing, a one-element set otherwise.
OrEmptyList(opt) == IF opt = {} THEN <<>> ELSE CHOOSE l \in opt : TRUE

\* The ResolvedConstraints that resolve builds from a registry entry's
\* ProviderConstraints.
Bind(c, modelId) ==
  [provider |-> c.provider, modelId |-> modelId, unsupported |-> c.unsupported,
   customValidators |-> OrEmptyList(c.customValidators),
   jsonSchemaTarget |-> c.jsonSchemaTarget]

\* A variant that ignores the rule's context.
isFeatureUnsupportedFlat(feature, unsupported, currentContext) ==
  \E i \in DOMAIN unsupported : unsupported[i].feature = feature

\* validate.ts isFeatureUnsupported; currentContext "undefined" is the
\* omitted third argument, a rule's context "none" the omitted field.
isFeatureUnsupported(feature, unsupported, currentContext) ==
  \E i \in DOMAIN unsupported :
    /\ unsupported[i].feature = feature
    /\ \/ unsupported[i].context \in {"none", "any"}
       \/ currentContext = "undefined"
       \/ unsupported[i].context = currentContext

\* A variant that takes the message of the last rule naming the feature.
getFeatureMessageLast(feature, unsupported, defaultMessage) ==
  LET hits == {i \in DOMAIN unsupported : unsupported[i].feature = feature}
  IN IF hits = {} THEN defaultMessage
     ELSE LET final == CHOOSE i \in hits : \A j \in hits : j <= i
          IN IF unsupported[final].message = "" THEN defaultMessage
             ELSE unsupported[final].message

\* validate.ts getFeatureMessage: the first rule naming the feature, its
\* message unless missing or empty.
getFeatureMessage(feature, unsupported, defaultMessage) ==
  LET hits == {i \in DOMAIN unsupported : unsupported[i].feature = feature}
  IN IF hits = {} THEN defaultMessage
     ELSE LET first == CHOOSE i \in hits : \A j \in hits : i <= j
          IN IF unsupported[first].message = "" THEN defaultMessage
             ELSE unsupported[first].message

When(cond, issue) == IF cond THEN <<issue>> ELSE <<>>

\* JavaScript truthiness of a sub-schema slot and of a list or map keyword.
\* In the bounded documents a list or map keyword is present exactly when
\* it has an element.
IsObject(ref) == ref >= 1
RefTruthy(ref) == ref >= 0
HasItems(n) == RefTruthy(n.items) \/ Len(n.itemsArr) > 0

\* A variant that falls through to the plain feature for anyOf as for oneOf.
checkCompositionKeywordsAlike(n, path, isRoot, uns) ==
  LET context == IF isRoot THEN "root" ELSE "nested" IN
    When(Len(n.allOf) > 0 /\ isFeatureUnsupported("allOf", uns, context),
         Issue(path, "allOf",
               getFeatureMessage("allOf", uns, "allOf is not supported")))
    \o (IF Len(n.anyOf) > 0
        THEN IF isRoot /\ isFeatureUnsupported("rootAnyOf", uns, "root")
             THEN <<Issue(path, "rootAnyOf",
                          getFeatureMessage("rootAnyOf", uns,
                            "anyOf is not supported at root level"))>>
             ELSE When(isFeatureUnsupported("anyOf", uns, context),
                       Issue(path, "anyOf",
                             getFeatureMessage("anyOf", uns,
                               "anyOf is not supported")))
        ELSE <<>>)
    \o (IF Len(n.oneOf) > 0
        THEN IF isRoot /\ isFeatureUnsupported("rootOneOf", uns, "root")
             THEN <<Issue(path, "rootOneOf",
                          getFeatureMessage("rootOneOf", uns,
                            "oneOf is not supported at root level"))>>
             ELSE When(isFeatureUnsupported("oneOf", uns, context),
                       Issue(path, "oneOf",
                             getFeatureMessage("oneOf", uns,
                               "oneOf is not supported")))
        ELSE <<>>)
    \o When(IsTruthy(n.kw["not"]) /\ isFeatureUnsupported("not", uns, context),
            Issue(path, "not",
                  getFeatureMessage("not", uns, "not is not supported")))

\* A variant that keeps the plain feature off the root for oneOf as for anyOf.
checkCompositionKeywordsRootOnly(n, path, isRoot, uns) ==
  LET context == IF isRoot THEN "root" ELSE "nested" IN
    When(Len(n.allOf) > 0 /\ isFeatureUnsupported("allOf", uns, context),
         Issue(path, "allOf",
               getFeatureMessage("allOf", uns, "allOf is not supported")))
    \o (IF Len(n.anyOf) > 0
        THEN IF isRoot /\ isFeatureUnsupported("rootAnyOf", uns, "root")
             THEN <<Issue(path, "rootAnyOf",
                          getFeatureMessage("rootAnyOf", uns,
                            "anyOf is not supported at root level"))>>
             ELSE When(~isRoot /\ isFeatureUnsupported("anyOf", uns, context),
                       Issue(path, "anyOf",
                             getFeatureMessage("anyOf", uns,
                               "anyOf is not supported")))
        ELSE <<>>)
    \o (IF Len(n.oneOf) > 0
        THEN IF isRoot /\ isFeatureUnsupported("rootOneOf", uns, "root")
             THEN <<Issue(path, "rootOneOf",
                          getFeatureMessage("rootOneOf", uns,
                            "oneOf is not supported at root level"))>>
             ELSE When(~isRoot /\ isFeatureUnsupported("oneOf", uns, context),
                       Issue(path, "oneOf",
                             getFeatureMessage("oneOf", uns,
                               "oneOf is not supported")))
        ELSE <<>>)
    \o When(IsTruthy(n.kw["not"]) /\ isFeatureUnsupported("not", uns, context),
            Issue(path, "not",
                  getFeatureMessage("not", uns, "not is not supported")))

\* validate.ts checkCompositionKeywords
checkCompositionKeywords(n, path, isRoot, uns) ==
  LET context == IF isRoot THEN "root" ELSE "nested" IN
    When(Len(n.allOf) > 0 /\ isFeatureUnsupported("allOf", uns, context),
         Issue(path, "allOf",
               getFeatureMessage("allOf", uns, "allOf is not supported")))
    \o (IF Len(n.anyOf) > 0
        THEN IF isRoot /\ isFeatureUnsupported("rootAnyOf", uns, "root")
             THEN <<Issue(path, "rootAnyOf",
                          getFeatureMessage("rootAnyOf", uns,
                            "anyOf is not supported at root level"))>>
             ELSE When(~isRoot /\ isFeatureUnsupported("anyOf", uns, context),
                       Issue(path, "anyOf",
                             getFeatureMessage("anyOf", uns,
                               "anyOf is not supported")))
        ELSE <<>>)
    \o (IF Len(n.oneOf) > 0
        THEN IF isRoot /\ isFeatureUnsupported("rootOneOf", uns, "root")
             THEN <<Issue(path, "rootOneOf",
                          getFeatureMessage("rootOneOf", uns,
                            "oneOf is not supported at root level"))>>
             ELSE When(isFeatureUnsupported("oneOf", uns, context),
                       Issue(path, "oneOf",
                             getFeatureMessage("oneOf", uns,
                               "oneOf is not supported")))
        ELSE <<>>)
    \o When(IsTruthy(n.kw["not"]) /\ isFeatureUnsupported("not", uns, context),
            Issue(path, "not",
                  getFeatureMessage("not", uns, "not is not supported")))

\* A variant that flags `if` without consulting the rule set.
checkConditionalKeywordsUnlisted(n, path, uns) ==
    When(RefTruthy(n.if),
         Issue(path, "if",
               getFeatureMessage("if", uns,
                 "if/then/else conditionals are not supported")))

\* validate.ts checkConditionalKeywords
checkConditionalKeywords(n, path, uns) ==
    When(RefTruthy(n.if) /\ isFeatureUnsupported("if", uns, "undefined"),
         Issue(path, "if",
               getFeatureMessage("if", uns,
                 "if/then/else conditionals are not supported")))
    \o When(IsTruthy(n.kw["dependentRequired"])
              /\ isFeatureUnsupported("dependentRequired", uns, "undefined"),
            Issue(path, "dependentRequired",
                  getFeatureMessage("dependentRequired", uns,
                    "dependentRequired is not supported")))
    \o When(IsTruthy(n.kw["dependentSchemas"])
              /\ isFeatureUnsupported("dependentSchemas", uns, "undefined"),
            Issue(path, "dependentSchemas",
                  getFeatureMessage("dependentSchemas", uns,
                    "dependentSchemas is not supported")))

\* The template `${keyword} is not supported` of checkValidationKeywords.
KeywordDefaultMessage(k) ==
  CASE k = "minimum" -> "minimum is not supported"
    [] k = "maximum" -> "maximum is not supported"
    [] k = "exclusiveMinimum" -> "exclusiveMinimum is not supported"
    [] k = "exclusiveMaximum" -> "exclusiveMaximum is not supported"
    [] k = "multipleOf" -> "multipleOf is not supported"
    [] k = "minLength" -> "minLength is not supported"
    [] k = "maxLength" -> "maxLength is not supported"
    [] k = "pattern" -> "pattern is not supported"
    [] k = "format" -> "format is not supported"

RECURSIVE checkKeywordList(_, _, _, _, _)
checkKeywordList(keywords, i, n, path, uns) ==
  IF i > Len(keywords) THEN <<>>
  ELSE When(IsDefined(n.kw[keywords[i]])
              /\ isFeatureUnsupported(keywords[i], uns, "undefined"),
            Issue(path, keywords[i],
                  getFeatureMessage(keywords[i], uns,
                    KeywordDefaultMessage(keywords[i]))))
       \o checkKeywordList(keywords, i + 1, n, path, uns)

\* A variant whose keyword loops test the keyword's value for truthiness.
checkValidationKeywordsTruthy(n, path, uns) ==
  LET Kept(i) == IsTruthy(n.kw[i.feature])
  IN SelectSeq(checkKeywordList(numericKeywords, 1, n, path, uns)
               \o checkKeywordList(stringKeywords, 1, n, path, uns), Kept)

\* validate.ts checkValidationKeywords
checkValidationKeywords(n, path, uns) ==
  checkKeywordList(numericKeywords, 1, n, path, uns)
  \o checkKeywordList(stringKeywords, 1, n, path, uns)

\* validate.ts checkObjectConstraints
checkObjectConstraints(n, path, uns) ==
    When(IsTruthy(n.kw["patternProperties"])
           /\ isFeatureUnsupported("patternProperties", uns, "undefined"),
         Issue(path, "patternProperties",
               getFeatureMessage("patternProperties", uns,
                 "patternProperties is not supported")))
    \o When(IsTruthy(n.kw["propertyNames"])
              /\ isFeatureUnsupported("propertyNames", uns, "undefined"),
            Issue(path, "propertyNames",
                  getFeatureMessage("propertyNames", uns,
                    "propertyNames is not supported")))

\* validate.ts checkArrayConstraints
checkArrayConstraints(n, path, uns) ==
    When(Len(n.prefixItems) > 0
           /\ isFeatureUnsupported("prefixItems", uns, "undefined"),
         Issue(path, "prefixItems",
               getFeatureMessage("prefixItems", uns,
                 "prefixItems is not supported")))
    \o When(IsTruthy(n.kw["contains"])
              /\ isFeatureUnsupported("contains", uns, "undefined"),
            Issue(path, "contains",
                  getFeatureMessage("contains", uns,
                    "contains is not supported")))
    \o When(IsTruthy(n.kw["uniqueItems"])
              /\ isFeatureUnsupported("uniqueItems", uns, "undefined"),
            Issue(path, "uniqueItems",
                  getFeatureMessage("uniqueItems", uns,
                    "uniqueItems is not supported")))
    \o When(IsDefined(n.kw["minItems"])
              /\ isFeatureUnsupported("minItems", uns, "undefined"),
            Issue(path, "minItems",
                  getFeatureMessage("minItems", uns,
                    "minItems is not supported")))
    \o When(IsDefined(n.kw["maxItems"])
              /\ isFeatureUnsupported("maxItems", uns, "undefined"),
            Issue(path, "maxItems",
                  getFeatureMessage("maxItems", uns,
                    "maxItems is not supported")))

IsObjectLike(n) == n.type = "object" \/ Len(n.properties) > 0
IsArrayLike(n) == n.type = "array" \/ HasItems(n)

\* The part of traverseSchema that runs before the first descent.
HeadChecks(n, path, isRoot, uns) ==
  checkCompositionKeywords(n, path, isRoot, uns)
  \o checkConditionalKeywords(n, path, uns)
  \o checkValidationKeywords(n, path, uns)
  \o (IF IsObjectLike(n) THEN checkObjectConstraints(n, path, uns) ELSE <<>>)

\* ------------------------------------------------------------------------
\* Procedural checks: the validate functions of the provider rule sets,
\* which a caller can also supply as a CustomValidator.
\* ------------------------------------------------------------------------
PropertyKeys == <<"a", "b", "c">>

\* `Optional properties found: ${optional.join(', ')}` over the bounded keys.
OptionalPropertiesMessage(optional) ==
  CASE optional = <<"a">> ->
         "All properties must be required. Optional properties found: a"
    [] optional = <<"b">> ->
         "All properties must be required. Optional properties found: b"
    [] optional = <<"a", "b">> ->
         "All properties must be required. Optional properties found: a, b"
    [] OTHER ->
         "All properties must be required. Optional properties found: ..."

\* openai.ts optionalProperties.validate
validateOptionalProperties(n, path) ==
  IF Len(n.properties) > 0
  THEN LET props == [i \in DOMAIN n.properties |-> n.properties[i][1]]
           optional == SelectSeq(props, LAMBDA p : p \notin n.required)
       IN When(Len(optional) > 0,
               Issue(path, "optionalProperties",
                     OptionalPropertiesMessage(optional)))
  ELSE <<>>

\* openai.ts / anthropic.ts / google.ts enum.validate
validateEnum(n, path) ==
  When(n.kw["enum"] = "complex",
       Issue(path, "enum",
             "Enum values must be strings, numbers, booleans, or null - complex types are not supported"))

\* A validator that reports one issue, with a feature name of its own, on
\* every root node it is given: it makes the isRoot argument observable.
validateRootProbe(n, path, isRoot) ==
  When(isRoot, Issue(path, "rootProbe", "root node"))

RunValidator(name, n, path, isRoot) ==
  CASE name = "optionalProperties" -> validateOptionalProperties(n, path)
    [] name = "enum" -> validateEnum(n, path)
    [] name = "rootProbe" -> validateRootProbe(n, path, isRoot)

\* A variant of the loop that runs the list from its end.
RECURSIVE RunValidatorsReversed(_, _, _, _, _)
RunValidatorsReversed(validators, i, n, path, isRoot) ==
  IF i > Len(validators) THEN <<>>
  ELSE RunValidatorsReversed(validators, i + 1, n, path, isRoot)
       \o RunValidator(validators[i], n, path, isRoot)

\* ctx.constraints.customValidators.forEach(...) of traverseSchema
RECURSIVE RunValidators(_, _, _, _, _)
RunValidators(validators, i, n, path, isRoot) ==
  IF i > Len(validators) THEN <<>>
  ELSE RunValidator(validators[i], n, path, isRoot)
       \o RunValidators(validators, i + 1, n, path, isRoot)

\* ------------------------------------------------------------------------
\* The descents of traverseSchema, in the order the code makes them
\* ------------------------------------------------------------------------
\* A variant in which a descent passes isRoot: true.
WorkAsRoot(kind, ref, path) ==
  [kind |-> kind, node |-> ref, path |-> path, isRoot |-> TRUE]

\* A piece of pending work of one traverseSchema activation; a descent
\* always passes isRoot: false.
Work(kind, ref, path) ==
  [kind |-> kind, node |-> ref, path |-> path, isRoot |-> FALSE]

\* Object.entries(map).forEach: one descent per entry that is an object.
RECURSIVE MapDescents(_, _, _, _)
MapDescents(entries, i, path, keyword) ==
  IF i > Len(entries) THEN <<>>
  ELSE (IF IsObject(entries[i][2])
        THEN <<Work("traverse", entries[i][2],
                    path \o <<keyword, entries[i][1]>>)>>
        ELSE <<>>)
       \o MapDescents(entries, i + 1, path, keyword)

\* list.forEach((item, i) => ...): one descent per element that is an object.
RECURSIVE ListDescents(_, _, _, _)
ListDescents(list, i, path, keyword) ==
  IF i > Len(list) THEN <<>>
  ELSE (IF IsObject(list[i])
        THEN <<Work("traverse", list[i], path \o <<keyword, IdxStr(i - 1)>>)>>
        ELSE <<>>)
       \o ListDescents(list, i + 1, path, keyword)

SlotDescent(ref, path, keyword) ==
  IF IsObject(ref) THEN <<Work("traverse", ref, path \o <<keyword>>)>>
  ELSE <<>>

ObjectDescents(n, path) ==
  MapDescents(n.properties, 1, path, "properties")
  \o SlotDescent(n.additionalProperties, path, "additionalProperties")

ArrayDescents(n, path) ==
  (IF Len(n.itemsArr) > 0 THEN ListDescents(n.itemsArr, 1, path, "items")
   ELSE SlotDescent(n.items, path, "items"))
  \o ListDescents(n.prefixItems, 1, path, "prefixItems")

DefsDescents(n, path) ==
  IF Len(n.defs) > 0 THEN MapDescents(n.defs, 1, path, "$defs")
  ELSE MapDescents(n.definitions, 1, path, "definitions")

\* A variant that runs the array checks before any descent.
NodeWorkChecksFirst(n, path) ==
  (IF IsArrayLike(n) THEN <<Work("arrayChecks", NoRef, path)>> ELSE <<>>)
  \o (IF IsObjectLike(n) THEN ObjectDescents(n, path) ELSE <<>>)
  \o (IF IsArrayLike(n) THEN ArrayDescents(n, path) ELSE <<>>)
  \o ListDescents(n.allOf, 1, path, "allOf")
  \o ListDescents(n.anyOf, 1, path, "anyOf")
  \o ListDescents(n.oneOf, 1, path, "oneOf")
  \o SlotDescent(n.if, path, "if")
  \o SlotDescent(n.then, path, "then")
  \o SlotDescent(n.else, path, "else")
  \o DefsDescents(n, path)
  \o <<Work("customValidators", NoRef, path)>>

\* What traverseSchema still has to do on a node once its head checks ran.
NodeWork(n, path) ==
  (IF IsObjectLike(n) THEN ObjectDescents(n, path) ELSE <<>>)
  \o (IF IsArrayLike(n)
      THEN <<Work("arrayChecks", NoRef, path)>> \o ArrayDescents(n, path)
      ELSE <<>>)
  \o ListDescents(n.allOf, 1, path, "allOf")
  \o ListDescents(n.anyOf, 1, path, "anyOf")
  \o ListDescents(n.oneOf, 1, path, "oneOf")
  \o SlotDescent(n.if, path, "if")
  \o SlotDescent(n.then, path, "then")
  \o SlotDescent(n.else, path, "else")
  \o DefsDescents(n, path)
  \o <<Work("customValidators", NoRef, path)>>

\* ------------------------------------------------------------------------
\* Bounded documents: a document is drawn as a list of references between
\* nodes (edges), a type per node and one keyword placed on some nodes.
\* ------------------------------------------------------------------------
EdgeKinds ==
  <<"properties", "additionalProperties", "items", "itemsArr", "prefixItems",
    "allOf", "anyOf", "oneOf", "if", "then", "else", "defs", "definitions">>

SingleSlotKinds == {"additionalProperties", "items", "if", "then", "else"}

KindIndex(k) == CHOOSE i \in DOMAIN EdgeKinds : EdgeKinds[i] = k

Edge(src, kind, dst) == [src |-> src, kind |-> kind, dst |-> dst]

EdgeRank(e) == e.src * 100 + KindIndex(e.kind)

\* Edge lists in the order the fields hold them; a single-valued keyword
\* occurs once per node, and items is either one schema or a list.
WellFormedEdges(es) ==
  /\ \A i \in 1..(Len(es) - 1) : EdgeRank(es[i]) <= EdgeRank(es[i + 1])
  /\ \A i, j \in DOMAIN es :
       (i < j /\ es[i].src = es[j].src) =>
         /\ ~(es[i].kind = es[j].kind /\ es[i].kind \in SingleSlotKinds)
         /\ ~(es[i].kind = "items" /\ es[j].kind = "itemsArr")

EdgeLists(E, maxLen) ==
  {es \in UNION {[1..n -> E] : n \in 0..maxLen} : WellFormedEdges(es)}

\* Every reference between two nodes, and the references that never point
\* to a node of lower identity.
AnyEdges(kinds) == {Edge(s, k, d) : s \in NodeIds, k \in kinds, d \in NodeIds}
DownEdges(kinds) == {e \in AnyEdges(kinds) : e.src <= e.dst}

Targets(es, n, kind) ==
  LET sel == SelectSeq(es, LAMBDA e : e.src = n /\ e.kind = kind)
  IN [i \in DOMAIN sel |-> sel[i].dst]

Entries(es, n, kind) ==
  LET t == Targets(es, n, kind)
  IN [i \in DOMAIN t |-> <<PropertyKeys[i], t[i]>>]

Slot(es, n, kind) ==
  LET t == Targets(es, n, kind) IN IF Len(t) > 0 THEN t[1] ELSE NoRef

\* A placed keyword: keyword k with value v on the nodes of `on`.  The
\* pseudo-values of additionalProperties and required are decoded here.
Placed(k, v, on) == [k |-> k, v |-> v, on |-> on]

NodeOf(es, types, placed, n) ==
  LET here == n \in placed.on
      edgeAP == Slot(es, n, "additionalProperties")
  IN [type |-> types[n],
      kw |-> [k \in ScalarKeywords |->
                IF here /\ placed.k = k THEN placed.v ELSE "absent"],
      properties |-> Entries(es, n, "properties"),
      required |->
        IF here /\ placed.k = "required"
        THEN (IF placed.v = "a" THEN {"a"}
              ELSE {PropertyKeys[i] : i \in DOMAIN PropertyKeys})
        ELSE {},
      additionalProperties |->
        IF edgeAP # NoRef THEN edgeAP
        ELSE IF here /\ placed.k = "additionalProperties"
             THEN (IF placed.v = "false" THEN BoolFalse ELSE BoolTrue)
             ELSE NoRef,
      items |-> Slot(es, n, "items"),
      itemsArr |-> Targets(es, n, "itemsArr"),
      prefixItems |-> Targets(es, n, "prefixItems"),
      allOf |-> Targets(es, n, "allOf"),
      anyOf |-> Targets(es, n, "anyOf"),
      oneOf |-> Targets(es, n, "oneOf"),
      if |-> Slot(es, n, "if"),
      then |-> Slot(es, n, "then"),
      else |-> Slot(es, n, "else"),
      defs |-> Entries(es, n, "defs"),
      definitions |-> Entries(es, n, "definitions")]

DocOf(es, types, placed) == [n \in NodeIds |-> NodeOf(es, types, placed, n)]

\* ------------------------------------------------------------------------
\* Model identifiers (model.ts).  A string is a sequence of characters.
\* ------------------------------------------------------------------------
Lower(c) ==
  CASE c = "A" -> "a" [] c = "B" -> "b" [] c = "X" -> "x" [] OTHER -> c

toLowerCase(s) == [i \in DOMAIN s |-> Lower(s[i])]

\* A variant that finds the last occurrence.
lastIndexOf(s, c) ==
  IF \E i \in DOMAIN s : s[i] = c
  THEN (CHOOSE i \in DOMAIN s : s[i] = c /\ \A j \in (i + 1)..Len(s) : s[j] # c) - 1
  ELSE -1

\* String.prototype.indexOf, zero-based, -1 when the character is missing.
indexOf(s, c) ==
  IF \E i \in DOMAIN s : s[i] = c
  THEN (CHOOSE i \in DOMAIN s : s[i] = c /\ \A j \in 1..(i - 1) : s[j] # c) - 1
  ELSE -1

\* String.prototype.slice(from, to) with zero-based bounds.
slice(s, from, to) == SubSeq(s, from + 1, to)

Threw(msg) == [ok |-> FALSE, error |-> msg, provider |-> <<>>, modelId |-> <<>>]
Parsed(p, m) == [ok |-> TRUE, error |-> "", provider |-> p, modelId |-> m]

ModelString(s) == [form |-> "string", s |-> s, provider |-> <<>>, modelId |-> <<>>]
ModelObject(p, m) == [form |-> "object", s |-> <<>>, provider |-> p, modelId |-> m]

parseModelString(model) ==
  LET slashIndex == indexOf(model, "/") IN
    IF slashIndex = -1 THEN Threw("Expected format")
    ELSE LET provider == slice(model, 0, slashIndex)
             modelId == slice(model, slashIndex + 1, Len(model))
         IN IF provider = <<>> \/ modelId = <<>>
            THEN Threw("Both provider and model-id are required")
            ELSE Parsed(toLowerCase(provider), modelId)

parseModelObject(model) ==
  IF model.provider = <<>> \/ model.modelId = <<>>
  THEN Threw("Both provider and modelId are required")
  ELSE Parsed(toLowerCase(model.provider), model.modelId)

parseModel(model) ==
  IF model.form = "string" THEN parseModelString(model.s)
  ELSE IF model.form = "object" THEN parseModelObject(model)
  ELSE Threw("Invalid model identifier")

\* ------------------------------------------------------------------------
\* Registry patterns.  A string pattern is a Map key by value, a RegExp by
\* object identity.  The regular expressions of the model have the shape
\* /^(p1|p2|...)\/REST$/ with REST either .+ or .*needle.*, as all
\* patterns of registry.ts do; `global` is the g flag.
\* ------------------------------------------------------------------------
RegExp(alts, needle, global) ==
  [alts |-> alts, needle |-> needle, global |-> global]

IsPrefix(p, s) == Len(p) <= Len(s) /\ SubSeq(s, 1, Len(p)) = p

Contains(s, needle) ==
  \E i \in 0..(Len(s) - Len(needle)) : SubSeq(s, i + 1, i + Len(needle)) = needle

\* The characters that `.` does not match in an expression without the s
\* flag: line feed and carriage return (and U+2028, U+2029).
LineTerminators == {"\n", "\r"}

\* Whether the expression matches the whole string from position 0: one of
\* the alternatives, the slash, and a rest that `.` can consume up to `$`,
\* which without the m flag is the end of the string.
Matches(re, s) ==
  \E alt \in re.alts :
    /\ IsPrefix(alt \o <<"/">>, s)
    /\ LET rest == SubSeq(s, Len(alt) + 2, Len(s))
       IN /\ \A i \in DOMAIN rest : rest[i] \notin LineTerminators
          /\ IF re.needle = <<>> THEN Len(rest) >= 1
             ELSE Contains(rest, re.needle)

\* A variant of test that always succeeds.
TestResultAlways(re, index, s) == TRUE

\* RegExp.prototype.test: a global expression starts at lastIndex and leaves
\* the end of the match (or 0 on failure) there; an expression anchored
\* with ^ matches only from position 0.
TestResult(re, index, s) ==
  IF re.global THEN index = 0 /\ Matches(re, s) ELSE Matches(re, s)

TestLastIndex(re, index, s) ==
  IF re.global THEN (IF index = 0 /\ Matches(re, s) THEN Len(s) ELSE 0)
  ELSE index

\* The RegExp objects of the program: 1..4 are the literals of registry.ts,
\* the others are created by callers.
RegExpObjects ==
  <<RegExp({OPENAI, OPENAI \o <<".", "c", "h", "a", "t">>,
            OPENAI \o <<".", "r", "e", "s", "p", "o", "n", "s", "e", "s">>},
           <<>>, FALSE),
    RegExp({AZURE, AZURE \o <<".", "c", "h", "a", "t">>,
            AZURE \o <<".", "r", "e", "s", "p", "o", "n", "s", "e", "s">>},
           OPENAI, FALSE),
    RegExp({ANTHROPIC,
            ANTHROPIC \o <<".", "m", "e", "s", "s", "a", "g", "e", "s">>},
           <<>>, FALSE),
    RegExp({GOOGLE \o <<".", "g", "e", "n", "e", "r", "a", "t", "i", "v", "e",
                        "-", "a", "i">>,
            GOOGLE \o <<".", "v", "e", "r", "t", "e", "x", ".", "c", "h", "a", "t">>,
            GOOGLE \o <<".", "v", "e", "r", "t", "e", "x">>},
           <<>>, FALSE),
    RegExp({<<"a">>}, <<>>, FALSE),
    RegExp({<<"a">>, <<"b">>}, <<>>, TRUE),
    RegExp({<<"a">>}, <<>>, FALSE)>>

CallerRegExps == {5, 6, 7}

StringPattern(s) == [kind |-> "string", s |-> s, id |-> 0]
RegExpPattern(id) == [kind |-> "regex", s |-> <<>>, id |-> id]

\* Object.keys(builtInProviders)
BuiltInProviderNames == <<"openai", "anthropic", "google">>

\* A function that every object literal inherits from Object.prototype,
\* read as ProviderConstraints: its provider, unsupported, customValidators
\* and jsonSchemaTarget properties are all undefined.
ObjectPrototypeMember ==
  [provider |-> <<"undefined">>, unsupported |-> <<>>,
   customValidators |-> {}, jsonSchemaTarget |-> "undefined"]

\* A variant of the lookup that sees own properties only.
builtInProvidersOwn(name) ==
  CASE name = "openai" -> {openaiConstraints}
    [] name = "anthropic" -> {anthropicConstraints}
    [] name = "google" -> {googleConstraints}
    [] OTHER -> {}

\* registry.ts builtInProviders[name], a property lookup on an object
\* literal: own properties first, then Object.prototype; the empty set is
\* undefined.
builtInProviders(name) ==
  CASE name = "openai" -> {openaiConstraints}
    [] name = "anthropic" -> {anthropicConstraints}
    [] name = "google" -> {googleConstraints}
    [] name \in {"toString", "constructor"} -> {ObjectPrototypeMember}
    [] OTHER -> {}

\* A variant that always appends.
MapSetAppend(map, key, value) == Append(map, [pattern |-> key, constraints |-> value])

\* Map.prototype.set: replace the value of a key in place, or append.
MapSet(map, key, value) ==
  IF \E i \in DOMAIN map : map[i].pattern = key
  THEN [i \in DOMAIN map |->
          IF map[i].pattern = key THEN [map[i] EXCEPT !.constraints = value]
          ELSE map[i]]
  ELSE Append(map, [pattern |-> key, constraints |-> value])

\* A variant that never finds a key.
MapGetNothing(map, s) == {}

\* Map.prototype.get for a string key; the empty set is undefined.
MapGet(map, s) ==
  {map[i].constraints : i \in {j \in DOMAIN map : map[j].pattern = StringPattern(s)}}

\* The registry after the module's four register calls (registry.ts 282-320).
DefaultRegistry ==
  MapSet(MapSet(MapSet(MapSet(<<>>,
    RegExpPattern(1), openaiConstraints),
    RegExpPattern(2), openaiConstraints),
    RegExpPattern(3), anthropicConstraints),
    RegExpPattern(4), googleConstraints)

\* ------------------------------------------------------------------------
\* State
\* ------------------------------------------------------------------------
VARIABLES
  doc,          \* the schema objects in memory: node identity -> node
  constraints,  \* the ResolvedConstraints the calls validate against
  schema,       \* the node passed to the current (or last) call
  pc,           \* "idle", "running" (inside a call) or "done"
  calls,        \* number of validateSchemaConstraints calls started
  stack,        \* activations: the call itself, then one per traverseSchema
  issues,       \* ctx.issues of the current call
  visited,      \* ctx.visited of the current call
  runs,         \* per node: how often its checks ran in the current call
  result,       \* the issue list the last finished call returned
  history,      \* per finished call: the node it was given and its issue list
  registry,     \* ProviderRegistry.registry: the Map, in insertion order
  lastIndex,    \* the lastIndex property of every RegExp object
  last,         \* the latest register or resolve call and its outcome
  regs,         \* number of register calls made by callers
  resolves,     \* number of resolve calls
  warnings,     \* number of console.warn calls
  api,          \* the validateSchema or assertSchema call in progress or last
  apiCalls      \* number of validateSchema and assertSchema calls started

tvars ==
  <<doc, constraints, schema, pc, calls, stack, issues, visited, runs, result,
    history>>
rvars == <<registry, lastIndex, last, regs, resolves, warnings>>
avars == <<api, apiCalls>>
vars == <<tvars, rvars, avars>>

Top == stack[Len(stack)]
Item == Top.todo[1]
Taken == [stack EXCEPT ![Len(stack)].todo = Tail(@)]
Pending == pc = "running" /\ Len(stack) > 0 /\ Len(Top.todo) > 0

\* A variant that carries the context of the call before over.
CallShared(root, limit) ==
  /\ pc \in {"idle", "done"}
  /\ api.phase # "traversing"
  /\ calls < limit
  /\ pc' = "running"
  /\ schema' = root
  /\ calls' = calls + 1
  /\ runs' = [n \in NodeIds |-> 0]
  /\ stack' = <<[node |-> NoRef, path |-> <<>>, isRoot |-> TRUE,
                 todo |-> <<[kind |-> "traverse", node |-> root,
                             path |-> <<>>, isRoot |-> TRUE]>>]>>
  /\ UNCHANGED <<history, doc, constraints, result, issues, visited>>
  /\ UNCHANGED <<rvars, avars>>

\* validateSchemaConstraints(schema, constraints), up to its call of
\* traverseSchema: a fresh context.  `limit` bounds the number of calls of
\* a behaviour.
CallWithin(root, limit) ==
  /\ pc \in {"idle", "done"}
  /\ api.phase # "traversing"
  /\ calls < limit
  /\ pc' = "running"
  /\ schema' = root
  /\ calls' = calls + 1
  /\ issues' = <<>>
  /\ visited' = {}
  /\ runs' = [n \in NodeIds |-> 0]
  /\ stack' = <<[node |-> NoRef, path |-> <<>>, isRoot |-> TRUE,
                 todo |-> <<[kind |-> "traverse", node |-> root,
                             path |-> <<>>, isRoot |-> TRUE]>>]>>
  /\ UNCHANGED <<history, doc, constraints, result>>
  /\ UNCHANGED <<rvars, avars>>

Call(root) == CallWithin(root, MaxCalls)

\* A variant that forgets the node.
VisitedAddNothing(set, node) == set

\* ctx.visited.add(schema)
VisitedAdd(set, node) == set \cup {node}

\* A variant that makes no descent once the call has found an issue.
EnterStopAtIssue ==
  /\ Pending
  /\ Item.kind = "traverse"
  /\ Item.node \notin visited
  /\ visited' = VisitedAdd(visited, Item.node)
  /\ runs' = [runs EXCEPT ![Item.node] = @ + 1]
  /\ issues' = issues \o HeadChecks(doc[Item.node], Item.path, Item.isRoot,
                                    constraints.unsupported)
  /\ stack' = Append(Taken,
                     [node |-> Item.node, path |-> Item.path,
                      isRoot |-> Item.isRoot,
                      todo |-> IF issues' # <<>>
                               THEN <<Work("customValidators", NoRef, Item.path)>>
                               ELSE NodeWork(doc[Item.node], Item.path)])
  /\ UNCHANGED <<history, doc, constraints, schema, pc, calls, result>>
  /\ UNCHANGED <<rvars, avars>>

\* traverseSchema on a node not seen in this call: mark it, run the head
\* checks, and line up the descents and the later checks.
Enter ==
  /\ Pending
  /\ Item.kind = "traverse"
  /\ Item.node \notin visited
  /\ visited' = VisitedAdd(visited, Item.node)
  /\ runs' = [runs EXCEPT ![Item.node] = @ + 1]
  /\ issues' = issues \o HeadChecks(doc[Item.node], Item.path, Item.isRoot,
                                    constraints.unsupported)
  /\ stack' = Append(Taken,
                     [node |-> Item.node, path |-> Item.path,
                      isRoot |-> Item.isRoot,
                      todo |-> NodeWork(doc[Item.node], Item.path)])
  /\ UNCHANGED <<history, doc, constraints, schema, pc, calls, result>>
  /\ UNCHANGED <<rvars, avars>>

\* A variant of the cycle guard that reports nothing.
RevisitSilent ==
  /\ Pending
  /\ Item.kind = "traverse"
  /\ Item.node \in visited
  /\ stack' = Taken
  /\ UNCHANGED <<history, doc, constraints, schema, pc, calls, visited, runs, result,
                 issues>>
  /\ UNCHANGED <<rvars, avars>>

\* A variant of the cycle guard that reports the node and then runs its
\* checks and the custom validators once more.
RevisitAndDescend ==
  /\ Pending
  /\ Item.kind = "traverse"
  /\ Item.node \in visited
  /\ runs' = [runs EXCEPT ![Item.node] = @ + 1]
  /\ issues' = issues
       \o When(isFeatureUnsupported("recursive", constraints.unsupported,
                                    "undefined"),
               Issue(Item.path, "recursive",
                     "Recursive schemas are not supported"))
       \o HeadChecks(doc[Item.node], Item.path, Item.isRoot,
                     constraints.unsupported)
  /\ stack' = Append(Taken,
                     [node |-> Item.node, path |-> Item.path,
                      isRoot |-> Item.isRoot,
                      todo |-> <<Work("customValidators", NoRef, Item.path)>>])
  /\ UNCHANGED <<history, doc, constraints, schema, pc, calls, visited, result>>
  /\ UNCHANGED <<rvars, avars>>

\* traverseSchema on a node already in ctx.visited: the cycle guard.
Revisit ==
  /\ Pending
  /\ Item.kind = "traverse"
  /\ Item.node \in visited
  /\ issues' = issues
       \o When(isFeatureUnsupported("recursive", constraints.unsupported,
                                    "undefined"),
               Issue(Item.path, "recursive",
                     "Recursive schemas are not supported"))
  /\ stack' = Taken
  /\ UNCHANGED <<history, doc, constraints, schema, pc, calls, visited, runs, result>>
  /\ UNCHANGED <<rvars, avars>>

\* The checkArrayConstraints call of an array-like node.
ArrayChecks ==
  /\ Pending
  /\ Item.kind = "arrayChecks"
  /\ issues' = issues \o checkArrayConstraints(doc[Top.node], Top.path,
                                               constraints.unsupported)
  /\ stack' = Taken
  /\ UNCHANGED <<history, doc, constraints, schema, pc, calls, visited, runs, result>>
  /\ UNCHANGED <<rvars, avars>>

\* The custom validators of a node, after which traverseSchema returns.
CustomValidators ==
  /\ Pending
  /\ Item.kind = "customValidators"
  /\ issues' = issues \o RunValidators(constraints.customValidators, 1,
                                       doc[Top.node], Top.path, Top.isRoot)
  /\ stack' = SubSeq(stack, 1, Len(stack) - 1)
  /\ UNCHANGED <<history, doc, constraints, schema, pc, calls, visited, runs, result>>
  /\ UNCHANGED <<rvars, avars>>

\* validateSchemaConstraints returns ctx.issues.
Return ==
  /\ pc = "running"
  /\ Len(stack) = 1
  /\ Top.todo = <<>>
  /\ result' = issues
  /\ history' = Append(history, [schema |-> schema, result |-> issues])
  /\ pc' = "done"
  /\ stack' = <<>>
  /\ UNCHANGED <<doc, constraints, schema, calls, issues, visited, runs>>
  /\ UNCHANGED <<rvars, avars>>

NoValue ==
  [provider |-> <<>>, modelId |-> <<>>, unsupported |-> <<>>,
   customValidators |-> <<>>, jsonSchemaTarget |-> "undefined"]

NoModel == [form |-> "none", s |-> <<>>, provider |-> <<>>, modelId |-> <<>>]

\* No error, and the Error of register: `Unknown provider "${name}".
\* Available providers: ${Object.keys(builtInProviders).join(', ')}`.
NoError == [kind |-> "none", name |-> "", available |-> <<>>]
UnknownProvider(name) ==
  [kind |-> "Unknown provider", name |-> name, available |-> BuiltInProviderNames]

\* The latest call: its arguments (the model of a resolve, the entry of a
\* register), whether it threw, what it threw, what it returned and whether
\* it wrote a warning to the console.
Outcome(op, threw, model, value) ==
  [op |-> op, threw |-> threw, model |-> model, value |-> value,
   entry |-> {}, error |-> NoError, warned |-> FALSE]

\* A register argument: `provider` is the alias form ('provider' in entry),
\* the empty alias the form with constraints.
AliasEntry(pattern, name) ==
  [pattern |-> pattern, alias |-> name, constraints |-> openaiConstraints]
ConstraintsEntry(pattern, c) ==
  [pattern |-> pattern, alias |-> "", constraints |-> c]

\* ProviderRegistry.register
Register(entry) ==
  /\ regs < MaxRegs
  /\ regs' = regs + 1
  /\ IF entry.alias # "" /\ builtInProviders(entry.alias) = {}
     THEN /\ last' = [Outcome("register", TRUE, NoModel, NoValue)
                        EXCEPT !.entry = {entry},
                               !.error = UnknownProvider(entry.alias)]
          /\ UNCHANGED registry
     ELSE /\ registry' =
               MapSet(registry, entry.pattern,
                      IF entry.alias # ""
                      THEN CHOOSE c \in builtInProviders(entry.alias) : TRUE
                      ELSE entry.constraints)
          /\ last' = [Outcome("register", FALSE, NoModel, NoValue)
                        EXCEPT !.entry = {entry}]
  /\ UNCHANGED <<lastIndex, resolves, warnings>>
  /\ UNCHANGED <<tvars, avars>>

\* A variant of the loop that runs in insertion order.
RECURSIVE ScanForward(_, _, _, _)
ScanForward(map, i, li, s) ==
  IF i > Len(map) THEN [hit |-> 0, li |-> li]
  ELSE IF map[i].pattern.kind = "regex"
       THEN LET id == map[i].pattern.id
                re == RegExpObjects[id]
                li2 == [li EXCEPT ![id] = TestLastIndex(re, li[id], s)]
            IN IF TestResult(re, li[id], s) THEN [hit |-> i, li |-> li2]
               ELSE ScanForward(map, i + 1, li2, s)
       ELSE ScanForward(map, i + 1, li, s)

\* The loop of resolve over Array.from(entries()).reverse(): from entry i
\* down to the first, testing every RegExp key until one matches.  The
\* result is the index of the match (0 for none) and the lastIndex
\* properties the tests leave behind.
RECURSIVE Scan(_, _, _, _)
Scan(map, i, li, s) ==
  IF i = 0 THEN [hit |-> 0, li |-> li]
  ELSE IF map[i].pattern.kind = "regex"
       THEN LET id == map[i].pattern.id
                re == RegExpObjects[id]
                li2 == [li EXCEPT ![id] = TestLastIndex(re, li[id], s)]
            IN IF TestResult(re, li[id], s) THEN [hit |-> i, li |-> li2]
               ELSE Scan(map, i - 1, li2, s)
       ELSE Scan(map, i - 1, li, s)

ScanAll(map, li, s) == Scan(map, Len(map), li, s)

\* ProviderRegistry.resolve as a function of the Map, the lastIndex of the
\* RegExp objects and the model: whether it threw, the constraints returned,
\* the lastIndex values the scan left behind and whether it warned.
resolveResult(map, li, model) ==
  LET parsedModel == parseModel(model) IN
  IF ~parsedModel.ok
  THEN [threw |-> TRUE, error |-> parsedModel.error, value |-> NoValue,
        li |-> li, warned |-> FALSE]
  ELSE LET modelIdentifier ==
             parsedModel.provider \o <<"/">> \o parsedModel.modelId
           exactMatch == MapGet(map, modelIdentifier)
           scan == ScanAll(map, li, modelIdentifier)
       IN IF exactMatch # {}
          THEN [threw |-> FALSE, error |-> "none",
                value |-> Bind(CHOOSE c \in exactMatch : TRUE,
                               parsedModel.modelId),
                li |-> li, warned |-> FALSE]
          ELSE IF scan.hit # 0
          THEN [threw |-> FALSE, error |-> "none",
                value |-> Bind(map[scan.hit].constraints,
                               parsedModel.modelId),
                li |-> scan.li, warned |-> FALSE]
          ELSE [threw |-> FALSE, error |-> "none",
                value |-> [provider |-> parsedModel.provider,
                           modelId |-> parsedModel.modelId,
                           unsupported |-> <<>>,
                           customValidators |-> <<>>,
                           jsonSchemaTarget |-> "undefined"],
                li |-> scan.li, warned |-> TRUE]

\* The record of a resolve call kept in last.
ResolveOutcome(model, r) ==
  IF r.threw
  THEN [Outcome("resolve", TRUE, model, NoValue)
          EXCEPT !.error = [kind |-> r.error, name |-> "", available |-> <<>>]]
  ELSE [Outcome("resolve", FALSE, model, r.value) EXCEPT !.warned = r.warned]

\* ProviderRegistry.resolve
Resolve(model) ==
  /\ resolves < MaxResolves
  /\ resolves' = resolves + 1
  /\ LET r == resolveResult(registry, lastIndex, model) IN
       /\ last' = ResolveOutcome(model, r)
       /\ lastIndex' = r.li
       /\ warnings' = warnings + (IF r.warned THEN 1 ELSE 0)
  /\ UNCHANGED <<registry, regs>>
  /\ UNCHANGED <<tvars, avars>>

\* ProviderRegistry.getAll
getAll == registry

Next ==
  \/ \E root \in NodeIds : Call(root)
  \/ Enter
  \/ Revisit
  \/ ArrayChecks
  \/ CustomValidators
  \/ Return

\* ------------------------------------------------------------------------
\* Specification of the traversal over document graphs: every reference
\* keyword, shared nodes and cycles.
\* ------------------------------------------------------------------------
AllKinds == {EdgeKinds[i] : i \in DOMAIN EdgeKinds}

NoPlaced == Placed("none", "absent", {})

Resolved(uns, validators) ==
  [provider |-> <<"c">>, modelId |-> <<"m">>, unsupported |-> uns,
   customValidators |-> validators, jsonSchemaTarget |-> "undefined"]

GraphConstraints ==
  {Resolved(<<>>, <<>>),
   Resolved(<<Rule("recursive", "none",
                   "Recursive schemas are not supported")>>, <<>>),
   Resolved(<<Rule("recursive", "nested", ""), Rule("allOf", "none", ""),
              Rule("anyOf", "none", ""), Rule("oneOf", "none", ""),
              Rule("if", "none", ""), Rule("prefixItems", "none", "")>>,
            <<"rootProbe">>)}

GraphEdgeLists == EdgeLists(AnyEdges(AllKinds), MaxEdges)

\* A schema input of validateSchema and assertSchema: a raw object (the
\* document node itself), a Standard Schema object with or without JSON
\* Schema support (node is the object its converter returns), or a value
\* that is neither.
JsonInput(n) == [kind |-> "json", support |-> FALSE, node |-> n]
StandardInput(support, n) == [kind |-> "standard", support |-> support, node |-> n]
OtherInput == [kind |-> "other", support |-> FALSE, node |-> NoRef]

NoApiError ==
  [name |-> "none", message |-> "", issues |-> <<>>, provider |-> <<>>,
   modelId |-> <<>>, jsonSchema |-> {}]

\* No validateSchema or assertSchema call has been made.
NoApi ==
  [fn |-> "none", phase |-> "idle",
   options |-> [model |-> NoModel, schema |-> OtherInput, target |-> "undefined",
                constraints |-> {}],
   resolved |-> NoValue, target |-> "undefined", jsonSchema |-> {},
   validation |-> {}, returned |-> {}, error |-> NoApiError]

InitCalls ==
  /\ pc = "idle"
  /\ history = <<>>
  /\ api = NoApi
  /\ apiCalls = 0
  /\ schema = NoRef
  /\ calls = 0
  /\ stack = <<>>
  /\ issues = <<>>
  /\ visited = {}
  /\ runs = [n \in NodeIds |-> 0]
  /\ result = <<>>

\* The module's registry after its own register calls; no caller has used it.
InitDefaultRegistry ==
  /\ registry = DefaultRegistry
  /\ lastIndex = [id \in DOMAIN RegExpObjects |-> 0]
  /\ last = Outcome("none", FALSE, NoModel, NoValue)
  /\ regs = 0
  /\ resolves = 0
  /\ warnings = 0

InitTraversal == InitCalls /\ InitDefaultRegistry

InitGraph ==
  /\ \E es \in GraphEdgeLists, ty \in {"none", "object", "array"} :
       doc = DocOf(es, [n \in NodeIds |-> ty], NoPlaced)
  /\ constraints \in GraphConstraints
  /\ InitTraversal

SpecGraph == InitGraph /\ [][Next]_vars

\* A call, once started, runs to its end: the engine is synchronous code
\* with no suspension point, so a step that can be taken is taken.
Step == Enter \/ Revisit \/ ArrayChecks \/ CustomValidators \/ Return

SpecGraphFair == SpecGraph /\ WF_vars(Step)

\* ------------------------------------------------------------------------
\* Specification of the traversal over rule sets and keywords: one feature
\* under a rule list of its own, the built-in provider rule sets, and
\* caller-supplied custom validators.
\* ------------------------------------------------------------------------
SchemaFeature ==
  {"allOf", "anyOf", "oneOf", "not", "rootAnyOf", "rootOneOf", "if", "then",
   "else", "dependentRequired", "dependentSchemas", "additionalProperties",
   "patternProperties", "propertyNames", "prefixItems", "additionalItems",
   "contains", "uniqueItems", "minimum", "maximum", "exclusiveMinimum",
   "exclusiveMaximum", "minLength", "maxLength", "pattern", "format",
   "minItems", "maxItems", "multipleOf", "$ref", "recursive",
   "optionalProperties", "enum"}

\* The reference keyword whose presence a feature is about, if any.
KindsOf(f) ==
  IF f \in {"allOf", "anyOf", "oneOf", "if", "then", "else", "prefixItems"}
  THEN {f}
  ELSE IF f = "rootAnyOf" THEN {"anyOf"}
  ELSE IF f = "rootOneOf" THEN {"oneOf"}
  ELSE {}

UniformTypes == {[n \in NodeIds |-> ty] : ty \in {"none", "object", "array"}}

Placements(k) ==
  {Placed(k, v, on) : v \in KeywordValues(k), on \in (SUBSET NodeIds) \ {{}}}

\* Rule lists about one feature: the empty list, one rule in each context,
\* with and without a message, and pairs of rules for the feature.
RuleListsOf(f) ==
  {<<>>}
  \cup {<<Rule(f, c, m)>> : c \in {"none", "any", "root", "nested"},
                       m \in {"", "first message"}}
  \cup {<<Rule(f, "root", "first message"), Rule(f, "nested", "second message")>>,
        <<Rule(f, "nested", ""), Rule(f, "none", "second message")>>}
  \cup (IF f \in {"anyOf", "oneOf"}
        THEN {<<Rule(IF f = "anyOf" THEN "rootAnyOf" ELSE "rootOneOf", "root", ""),
                Rule(f, "none", "")>>}
        ELSE {})

FeatureDocs(f) ==
  IF KindsOf(f) # {}
  THEN {DocOf(es, ty, NoPlaced) :
          es \in EdgeLists(DownEdges({"properties", "items"} \cup KindsOf(f)),
                           MaxEdges),
          ty \in UniformTypes}
  ELSE IF f \in ScalarKeywords \cup {"additionalProperties"}
  THEN {DocOf(es, ty, pl) :
          es \in EdgeLists(DownEdges({"properties", "items"}), MaxEdges - 1),
          ty \in UniformTypes, pl \in Placements(f)}
  ELSE {DocOf(es, ty, NoPlaced) :
          es \in EdgeLists(DownEdges({"properties", "items"}), MaxEdges - 1),
          ty \in UniformTypes}

BuiltInKeywords ==
  {"minItems", "maxItems", "additionalProperties", "required", "enum",
   "minimum", "pattern"}

BuiltInDocs ==
  {DocOf(es, ty, pl) :
     es \in EdgeLists(DownEdges({"properties"}), MaxEdges),
     ty \in UniformTypes,
     pl \in UNION {Placements(k) : k \in BuiltInKeywords}}

ValidatorLists ==
  {<<"optionalProperties">>, <<"enum", "optionalProperties">>,
   <<"rootProbe", "optionalProperties">>}

InitFeature ==
  \E f \in SchemaFeature :
    /\ doc \in FeatureDocs(f)
    /\ \E uns \in RuleListsOf(f) : constraints = Resolved(uns, <<>>)

InitBuiltIn ==
  /\ doc \in BuiltInDocs
  /\ \E c \in {openaiConstraints, anthropicConstraints, googleConstraints} :
       constraints = Bind(c, <<"m">>)

InitValidators ==
  /\ \E es \in EdgeLists(DownEdges({"properties"}), MaxEdges),
        ty \in UniformTypes,
        pl \in Placements("required") \cup Placements("enum") :
       doc = DocOf(es, ty, pl)
  /\ \E uns \in {<<>>, <<Rule("enum", "none", "")>>}, vs \in ValidatorLists :
       constraints = Resolved(uns, vs)

InitFeatures ==
  /\ InitFeature \/ InitBuiltIn \/ InitValidators
  /\ InitTraversal

SpecFeatures == InitFeatures /\ [][Next]_vars

\* ------------------------------------------------------------------------
\* Specification of the registry: callers register and resolve on the
\* module's providerRegistry or on a registry of their own.
\* ------------------------------------------------------------------------
CallerConstraints ==
  {[provider |-> <<"r", "1">>,
    unsupported |-> <<Rule("anyOf", "none", "anyOf not allowed")>>,
    customValidators |-> {}, jsonSchemaTarget |-> "undefined"],
   [provider |-> <<"r", "2">>, unsupported |-> <<>>,
    customValidators |-> {<<"optionalProperties">>},
    jsonSchemaTarget |-> "draft-2020-12"]}

CallerPatterns ==
  {StringPattern(<<"a", "/", "x">>)} \cup {RegExpPattern(id) : id \in CallerRegExps}

AliasPatterns == {StringPattern(<<"a", "/", "x">>), RegExpPattern(5)}

RegisterInputs ==
  {ConstraintsEntry(p, c) : p \in CallerPatterns, c \in CallerConstraints}
  \cup {AliasEntry(p, name) : p \in AliasPatterns,
                              name \in {"openai", "bogus", "toString"}}

ModelInputs ==
  {ModelString(<<"a", "/", "x">>), ModelString(<<"A", "/", "x">>),
   ModelString(<<"b", "/", "x">>), ModelString(<<"c", "/", "X">>),
   ModelString(<<"a", "/", "x", "/", "y">>), ModelString(<<"a", "x">>),
   ModelString(<<"/", "x">>), ModelString(<<"a", "/">>),
   ModelString(OPENAI \o <<"/", "x">>),
   ModelString(OPENAI \o <<"/", "x", "\n">>),
   ModelString(OPENAI \o <<".", "c", "h", "a", "t", "/", "X">>),
   ModelString(AZURE \o <<"/", "x">>),
   ModelString(AZURE \o <<"/", "m", "y", "-">> \o OPENAI),
   ModelObject(<<"A">>, <<"x">>), ModelObject(<<"a">>, <<>>),
   ModelObject(<<>>, <<"x">>)}

NextRegistry ==
  \/ \E entry \in RegisterInputs : Register(entry)
  \/ \E model \in ModelInputs : Resolve(model)

InitRegistry ==
  /\ registry \in {<<>>, DefaultRegistry}
  /\ lastIndex = [id \in DOMAIN RegExpObjects |-> 0]
  /\ last = Outcome("none", FALSE, NoModel, NoValue)
  /\ regs = 0
  /\ resolves = 0
  /\ warnings = 0
  /\ doc = [n \in NodeIds |-> EmptyNode]
  /\ constraints = NoValue
  /\ InitCalls

SpecRegistry == InitRegistry /\ [][NextRegistry]_vars

\* ------------------------------------------------------------------------
\* Properties of the registry
\* ------------------------------------------------------------------------
ResolveReturned == last.op = "resolve" /\ ~last.threw

\* The canonical identifier "{provider}/{modelId}" of the resolved model.
Canonical == parseModel(last.model).provider \o <<"/">> \o parseModel(last.model).modelId

ExactEntries == {i \in DOMAIN registry : registry[i].pattern = StringPattern(Canonical)}

\* The regex entries whose expression matches the canonical identifier.
MatchingEntries ==
  {i \in DOMAIN registry :
     /\ registry[i].pattern.kind = "regex"
     /\ Matches(RegExpObjects[registry[i].pattern.id], Canonical)}

Expected(i) == Bind(registry[i].constraints, parseModel(last.model).modelId)

\* C1: when the registry holds an exact-string entry equal to the canonical
\* identifier and one or more regex entries that match it, resolve returns
\* the exact entry's rule set, wherever the string entry stands in the
\* registration order.
C1_ExactMatchWins ==
  ResolveReturned =>
    \A i \in ExactEntries : (MatchingEntries # {} => last.value = Expected(i))

\* A resolve answered from a string entry registered between two matching
\* regex entries that carry other rule sets.
C1_Witness ==
  /\ ResolveReturned
  /\ \E i \in ExactEntries : \E j, k \in MatchingEntries :
       /\ j < i /\ i < k
       /\ last.value = Expected(i)
       /\ Expected(j) # Expected(i) /\ Expected(k) # Expected(i)

\* C2: with no exact-string entry for the canonical identifier and two or
\* more regex entries matching it, resolve returns the rule set of the
\* matching entry registered last.
C2_LastRegexWins ==
  (ResolveReturned /\ ExactEntries = {} /\ Cardinality(MatchingEntries) >= 2) =>
    last.value =
      Expected(CHOOSE i \in MatchingEntries : \A j \in MatchingEntries : j <= i)

\* ------------------------------------------------------------------------
\* Properties of the traversal
\* ------------------------------------------------------------------------
Finished == pc = "done"

\* The node objects a node's traverseSchema activation descends into.
FollowedRefs(n) ==
  LET work == NodeWork(doc[n], <<>>)
  IN {work[i].node : i \in {j \in DOMAIN work : work[j].kind = "traverse"}}

\* Every node object a node refers to, followed by the traversal or not.
AllRefs(n) ==
  LET d == doc[n]
      OfList(l) == {l[i] : i \in DOMAIN l}
      OfMap(m) == {m[i][2] : i \in DOMAIN m}
  IN (OfMap(d.properties) \cup OfMap(d.defs) \cup OfMap(d.definitions)
      \cup OfList(d.itemsArr) \cup OfList(d.prefixItems) \cup OfList(d.allOf)
      \cup OfList(d.anyOf) \cup OfList(d.oneOf)
      \cup {d.additionalProperties, d.items, d.if, d.then, d.else})
     \cap NodeIds

RECURSIVE ReachVia(_, _, _)
ReachVia(Refs(_), seen, k) ==
  IF k = 0 THEN seen
  ELSE ReachVia(Refs, seen \cup UNION {Refs(n) : n \in seen}, k - 1)

\* The nodes of the document rooted at `root`.
DocumentNodes(root) == ReachVia(AllRefs, {root}, MaxNodes)

\* The nodes the descents lead to from `root`.
TraversedNodes(root) == ReachVia(FollowedRefs, {root}, MaxNodes)

\* The node a path leads to from node n (NoRef when it leads nowhere).
RECURSIVE Follow(_, _)
Follow(n, p) ==
  IF p = <<>> THEN n
  ELSE IF n \notin NodeIds THEN NoRef
  ELSE
    LET d == doc[n]
        k == p[1]
        rest2 == SubSeq(p, 3, Len(p))
        InMap(m) ==
          LET hits == {i \in DOMAIN m : m[i][1] = p[2]}
          IN IF hits = {} THEN NoRef
             ELSE Follow(m[CHOOSE i \in hits : TRUE][2], rest2)
        InList(l) ==
          LET hits == {i \in DOMAIN l : IdxStr(i - 1) = p[2]}
          IN IF hits = {} THEN NoRef
             ELSE Follow(l[CHOOSE i \in hits : TRUE], rest2)
    IN IF k = "additionalProperties" THEN Follow(d.additionalProperties, Tail(p))
       ELSE IF k = "if" THEN Follow(d.if, Tail(p))
       ELSE IF k = "then" THEN Follow(d.then, Tail(p))
       ELSE IF k = "else" THEN Follow(d.else, Tail(p))
       ELSE IF k = "items" /\ Len(d.itemsArr) = 0 THEN Follow(d.items, Tail(p))
       ELSE IF Len(p) < 2 THEN NoRef
       ELSE IF k = "properties" THEN InMap(d.properties)
       ELSE IF k = "$defs" THEN InMap(d.defs)
       ELSE IF k = "definitions" THEN InMap(d.definitions)
       ELSE IF k = "items" THEN InList(d.itemsArr)
       ELSE IF k = "prefixItems" THEN InList(d.prefixItems)
       ELSE IF k = "allOf" THEN InList(d.allOf)
       ELSE IF k = "anyOf" THEN InList(d.anyOf)
       ELSE IF k = "oneOf" THEN InList(d.oneOf)
       ELSE NoRef

IssuesOf(list, feature) == {i \in DOMAIN list : list[i].feature = feature}

\* The returned list holds an issue of the feature at the path of node n.
ReportedAt(n, feature) ==
  \E i \in IssuesOf(result, feature) : Follow(schema, result[i].path) = n

\* The rules of the active rule set that carry no context restriction.
Unrestricted ==
  {i \in DOMAIN constraints.unsupported :
     constraints.unsupported[i].context \in {"none", "any"}}

\* A node uses a feature: the feature's keyword is on the node.
Uses(n, f) ==
  LET d == doc[n] IN
    IF f \in {"allOf", "anyOf", "oneOf", "prefixItems"} THEN Len(d[f]) > 0
    ELSE IF f \in {"if", "then", "else"} THEN RefTruthy(d[f])
    ELSE IF f = "additionalProperties" THEN d.additionalProperties # NoRef
    ELSE IF f = "rootAnyOf" THEN n = schema /\ Len(d.anyOf) > 0
    ELSE IF f = "rootOneOf" THEN n = schema /\ Len(d.oneOf) > 0
    ELSE IF f = "optionalProperties"
      THEN \E i \in DOMAIN d.properties : d.properties[i][1] \notin d.required
    ELSE IF f = "uniqueItems" THEN IsTruthy(d.kw[f])
    ELSE IF f \in ScalarKeywords THEN IsDefined(d.kw[f])
    ELSE FALSE

\* A node carries a feature's keyword where a built-in check looks for it.
Covered(n, f) ==
  LET d == doc[n]
      uns == constraints.unsupported
  IN \/ f \in {"allOf", "if"} /\ Uses(n, f)
     \/ f \in {"not", "dependentRequired", "dependentSchemas"} /\ IsTruthy(d.kw[f])
     \/ f = "anyOf" /\ Uses(n, f) /\ n # schema
     \/ /\ f = "oneOf" /\ Uses(n, f)
        /\ ~(n = schema /\ isFeatureUnsupported("rootOneOf", uns, "root"))
     \/ f = "rootOneOf" /\ Uses(n, f)
     \/ f = "rootAnyOf" /\ Uses(n, f)
     \/ /\ f \in {numericKeywords[i] : i \in DOMAIN numericKeywords}
                 \cup {stringKeywords[i] : i \in DOMAIN stringKeywords}
        /\ IsDefined(d.kw[f])
     \/ /\ f \in {"patternProperties", "propertyNames"}
        /\ IsTruthy(d.kw[f]) /\ IsObjectLike(d)
     \/ /\ f \in {"contains", "uniqueItems"}
        /\ IsTruthy(d.kw[f]) /\ IsArrayLike(d)
     \/ f = "prefixItems" /\ Uses(n, f) /\ IsArrayLike(d)
     \/ f \in {"minItems", "maxItems"} /\ IsDefined(d.kw[f]) /\ IsArrayLike(d)

RECURSIVE Descents(_)
Descents(nodes) ==
  IF nodes = {} THEN 0
  ELSE LET n == CHOOSE m \in nodes : TRUE
           work == NodeWork(doc[n], <<>>)
       IN Cardinality({j \in DOMAIN work : work[j].kind = "traverse"})
          + Descents(nodes \ {n})

\* A node object of the document is referred to more than once, or the
\* root is referred to at all: an instance of the feature 'recursive'.
SharedNodes(root) ==
  LET nodes == DocumentNodes(root)
      RefsTo(t) ==
        LET Count(l) == Cardinality({i \in DOMAIN l : l[i] = t})
            CountMap(m) == Cardinality({i \in DOMAIN m : m[i][2] = t})
            CountSlots(d) ==
              Cardinality({k \in {"additionalProperties", "items", "if",
                                  "then", "else"} : d[k] = t})
            OfNode(d) ==
              CountMap(d.properties) + CountMap(d.defs)
              + CountMap(d.definitions) + Count(d.itemsArr)
              + Count(d.prefixItems) + Count(d.allOf) + Count(d.anyOf)
              + Count(d.oneOf) + CountSlots(d)
            Sum[S \in SUBSET nodes] ==
              IF S = {} THEN 0
              ELSE LET n == CHOOSE m \in S : TRUE
                   IN OfNode(doc[n]) + Sum[S \ {n}]
        IN Sum[nodes]
  IN {t \in nodes : RefsTo(t) > (IF t = root THEN 0 ELSE 1)}

\* An instance of a listed feature somewhere in the document.
InstanceOf(root, f) ==
  IF f = "recursive" THEN SharedNodes(root) # {}
  ELSE \E n \in DocumentNodes(root) :
         \/ Uses(n, f)
         \/ f \in ScalarKeywords /\ IsDefined(doc[n].kw[f])

ValidatorsSilent(root) ==
  \A n \in DocumentNodes(root) :
    RunValidators(constraints.customValidators, 1, doc[n], <<>>, n = root) = <<>>

RECURSIVE TodoLength(_)
TodoLength(frames) ==
  IF frames = <<>> THEN 0
  ELSE Len(frames[1].todo) + 1 + TodoLength(Tail(frames))

Measure ==
  IF pc # "running" THEN 0
  ELSE Cardinality(NodeIds \ visited) * (MaxEdges + 3) + TodoLength(stack)

\* C5: a call terminates on every document graph, cyclic ones included:
\* inside a call a next step is always possible and every step strictly
\* lowers a natural-number measure of the remaining work, so a started call
\* always finishes; the checks of a node object run at most once per call.
C5_Terminates ==
  /\ [](\A n \in NodeIds : runs[n] <= 1)
  /\ [](pc = "running" =>
          ENABLED Step)
  /\ [][pc = "running" => Measure' < Measure]_vars
  /\ (pc = "running") ~> (pc = "done")

\* A finished call on a document in which the root reaches itself through
\* another node.
C5_Witness ==
  /\ Finished
  /\ \E n \in visited \ {schema} :
       n \in FollowedRefs(schema) /\ schema \in FollowedRefs(n)
  /\ \A n \in visited : runs[n] = 1

RecursiveUnsupported ==
  isFeatureUnsupported("recursive", constraints.unsupported, "undefined")

\* C6 as stated: with 'recursive' unsupported, a document holding a node
\* that refers to itself by identity, through references the traversal
\* follows, gets exactly one 'recursive' issue.
C6_ExactlyOneRecursiveIssue ==
  (Finished /\ RecursiveUnsupported
   /\ \E n \in visited :
        n \in ReachVia(FollowedRefs, FollowedRefs(n), MaxNodes))
    => Cardinality(IssuesOf(result, "recursive")) = 1

\* C6: with 'recursive' unsupported, the call reports one 'recursive' issue
\* for each descent that reaches a node object already visited, at the
\* path of that descent and leading to a visited node, and never the same
\* path twice; a single such descent gives exactly one issue.
C6_OneIssuePerReencounter ==
  (Finished /\ RecursiveUnsupported) =>
    LET rec == IssuesOf(result, "recursive")
    IN /\ Cardinality(rec) = Descents(visited) - (Cardinality(visited) - 1)
       /\ \A i \in rec :
            /\ result[i].path # <<>>
            /\ Follow(schema, result[i].path) \in visited
       /\ \A i, j \in rec : result[i].path = result[j].path => i = j

\* A finished call on a node that refers to itself once: one issue, at the
\* path of the self-reference.
C6_Witness ==
  /\ Finished
  /\ RecursiveUnsupported
  /\ schema \in FollowedRefs(schema)
  /\ Descents(visited) - (Cardinality(visited) - 1) = 1
  /\ Cardinality(IssuesOf(result, "recursive")) = 1
  /\ \E i \in IssuesOf(result, "recursive") :
       Follow(schema, result[i].path) = schema /\ result[i].path # <<>>


HasAllowRule(f, allowed) ==
  \E i \in DOMAIN constraints.unsupported :
    /\ constraints.unsupported[i].feature = f
    /\ constraints.unsupported[i].allowedValues = allowed

\* The number of issues of a feature the returned list holds for node n.
CountAt(n, feature) ==
  Cardinality({i \in IssuesOf(result, feature) :
                 Follow(schema, result[i].path) = n})

\* C7: under a rule {feature: 'minItems', allowedValues: [0, 1]} an array
\* node with minItems 0 or 1 gets no 'minItems' issue and an array node
\* with minItems 2 gets exactly one.
C7_AllowListHonoured ==
  (Finished /\ HasAllowRule("minItems", {"0", "1"})) =>
    \A n \in visited :
      doc[n].type = "array" =>
        /\ doc[n].kw["minItems"] \in {"0", "1"} => CountAt(n, "minItems") = 0
        /\ doc[n].kw["minItems"] = "2" => CountAt(n, "minItems") = 1

\* C8: under a rule {feature: 'additionalProperties', allowedValues:
\* [false]} every object node whose additionalProperties is absent or not
\* exactly false has an 'additionalProperties' issue at its path, and a
\* document whose object nodes all carry additionalProperties: false has
\* none.
C8_AdditionalPropertiesRequired ==
  (Finished /\ HasAllowRule("additionalProperties", {"false"})) =>
    /\ \A n \in visited :
         (doc[n].type = "object" /\ doc[n].additionalProperties # BoolFalse)
           => ReportedAt(n, "additionalProperties")
    /\ (\A n \in visited :
          doc[n].type = "object" => doc[n].additionalProperties = BoolFalse)
         => IssuesOf(result, "additionalProperties") = {}

\* C9: a rule of the unsupported list that carries a validate function is
\* run on the visited nodes: under the OpenAI rule set a node with
\* properties {a, b} and required ['a'] gets exactly one
\* 'optionalProperties' issue at its path, a node whose properties are all
\* required gets none.
C9_CustomRuleExecuted ==
  (Finished /\ constraints.unsupported = openaiConstraints.unsupported) =>
    \A n \in visited :
      LET keys == [i \in DOMAIN doc[n].properties |-> doc[n].properties[i][1]]
      IN /\ (keys = <<"a", "b">> /\ doc[n].required = {"a"})
              => CountAt(n, "optionalProperties") = 1
         /\ (\A i \in DOMAIN keys : keys[i] \in doc[n].required)
              => CountAt(n, "optionalProperties") = 0

CompositionFeatures == {"allOf", "not", "anyOf", "oneOf"}

\* Every rule of the rule set for feature f is bound to context c.
BoundTo(f, c) ==
  /\ \E i \in DOMAIN constraints.unsupported :
       constraints.unsupported[i].feature = f
  /\ \A i \in DOMAIN constraints.unsupported :
       constraints.unsupported[i].feature = f
         => constraints.unsupported[i].context = c

\* C10: for allOf, not, anyOf and oneOf, a rule bound to context 'root'
\* gives an issue only for the keyword on the top-level node, never on a
\* node inside it; a rule bound to 'nested' gives an issue only on nodes
\* other than the top-level one.
C10_ContextBound ==
  Finished =>
    \A f \in CompositionFeatures : \A i \in IssuesOf(result, f) :
      /\ BoundTo(f, "root") =>
           result[i].path = <<>> /\ Uses(schema, f)
      /\ BoundTo(f, "nested") =>
           /\ result[i].path # <<>>
           /\ Follow(schema, result[i].path) \in NodeIds \ {schema}
           /\ Uses(Follow(schema, result[i].path), f)

\* A finished call under a root-bound rule on a document that carries the
\* keyword on the root and on a nested node: one issue, at the root.
C10_Witness ==
  /\ Finished
  /\ \E f \in CompositionFeatures : \E n \in visited \ {schema} :
       /\ BoundTo(f, "root")
       /\ Uses(schema, f) /\ Uses(n, f)
       /\ Cardinality(IssuesOf(result, f)) = 1
       /\ \A i \in IssuesOf(result, f) : result[i].path = <<>>

ValidationFeatures ==
  {numericKeywords[i] : i \in DOMAIN numericKeywords}
  \cup {stringKeywords[i] : i \in DOMAIN stringKeywords}

\* C11: a validation keyword is flagged only where its feature is
\* unsupported in the node's own context: under a rule bound to 'root' only
\* on the root node, under a rule bound to 'nested' only on nested nodes.
C11_ValidationContextBound ==
  Finished =>
    \A f \in ValidationFeatures : \A i \in IssuesOf(result, f) :
      /\ BoundTo(f, "root") => result[i].path = <<>>
      /\ BoundTo(f, "nested") => result[i].path # <<>>

\* The latest call is a resolve of a well-formed identifier that no string
\* entry equals and no regex entry matches.
ResolvedUnmatched ==
  /\ last.op = "resolve"
  /\ parseModel(last.model).ok
  /\ ExactEntries = {}
  /\ MatchingEntries = {}

StaticRuleSet(name) ==
  CASE name = "openai" -> openaiConstraints
    [] name = "anthropic" -> anthropicConstraints
    [] name = "google" -> googleConstraints

\* C13: register({pattern, provider: X}) with X not the name of a built-in
\* provider throws, in that call, an 'Unknown provider' error listing the
\* valid names and leaves the registry as it was; with X a built-in name it
\* stores that provider's static rule set under the pattern.
C13_UnknownAliasThrows ==
  [][regs' = regs + 1 =>
       \A e \in last'.entry :
         e.alias # "" =>
           IF e.alias \in {"openai", "anthropic", "google"}
           THEN /\ ~last'.threw
                /\ registry' = MapSet(registry, e.pattern, StaticRuleSet(e.alias))
           ELSE /\ last'.threw
                /\ last'.error = UnknownProvider(e.alias)
                /\ last'.error.available = <<"openai", "anthropic", "google">>
                /\ registry' = registry]_vars

\* ------------------------------------------------------------------------
\* validateSchema and assertSchema
\* ------------------------------------------------------------------------
\* schema.ts isJSONSchema: the object has one of the indicator keys.  The
\* bounded documents carry a list or map keyword exactly when it has an
\* element, and never $schema or const.
isJSONSchema(node) ==
  \/ node.type # "none"
  \/ node.properties # <<>>
  \/ node.items # NoRef \/ node.itemsArr # <<>>
  \/ node.allOf # <<>> \/ node.anyOf # <<>> \/ node.oneOf # <<>>
  \/ IsDefined(node.kw["$ref"])
  \/ node.defs # <<>> \/ node.definitions # <<>>
  \/ IsDefined(node.kw["enum"])

\* schema.ts extractJSONSchema: the converter's object for a Standard
\* Schema with JSON Schema support, the input itself for a raw JSON Schema.
extractJSONSchema(nodes, input) ==
  IF input.kind = "standard"
  THEN IF input.support
       THEN [ok |-> TRUE, node |-> input.node, error |-> ""]
       ELSE [ok |-> FALSE, node |-> NoRef,
             error |-> "does not support JSON Schema conversion"]
  ELSE IF input.kind = "json" /\ isJSONSchema(nodes[input.node])
  THEN [ok |-> TRUE, node |-> input.node, error |-> ""]
  ELSE [ok |-> FALSE, node |-> NoRef, error |-> "Invalid schema input"]

\* A variant that reports success whatever the issue list holds.
validateSchemaResultAlways(list, jsonSchema, c) ==
  [success |-> TRUE, issues |-> {}, jsonSchema |-> jsonSchema,
   modelId |-> c.modelId, provider |-> c.provider]

\* The ValidationResult that validateSchema returns (assert.ts 49-62); the
\* success result has no issues property.
validateSchemaResult(list, jsonSchema, c) ==
  IF Len(list) = 0
  THEN [success |-> TRUE, issues |-> {}, jsonSchema |-> jsonSchema,
        modelId |-> c.modelId, provider |-> c.provider]
  ELSE [success |-> FALSE, issues |-> {list}, jsonSchema |-> jsonSchema,
        modelId |-> c.modelId, provider |-> c.provider]

\* new SchemaAssertionError({issues, provider, modelId, jsonSchema})
SchemaAssertionError(list, provider, modelId, jsonSchema) ==
  [name |-> "SchemaAssertionError",
   message |-> "The schema contains unsupported components",
   issues |-> list, provider |-> provider, modelId |-> modelId,
   jsonSchema |-> {jsonSchema}]

PlainError(message) == [NoApiError EXCEPT !.name = "Error", !.message = message]

\* A variant that hands back the extracted JSON Schema.
assertSchemaExtracted(options, v) ==
  IF ~v.success
  THEN [threw |-> TRUE, returned |-> {},
        error |-> SchemaAssertionError(OrEmptyList(v.issues), v.provider,
                                       v.modelId, v.jsonSchema)]
  ELSE [threw |-> FALSE, returned |-> {JsonInput(v.jsonSchema)},
        error |-> NoApiError]

\* assertSchema after its validateSchema call returned v (assert.ts 133-146).
assertSchema(options, v) ==
  IF ~v.success
  THEN [threw |-> TRUE, returned |-> {},
        error |-> SchemaAssertionError(OrEmptyList(v.issues), v.provider,
                                       v.modelId, v.jsonSchema)]
  ELSE [threw |-> FALSE, returned |-> {options.schema}, error |-> NoApiError]

ApiThrew(fn, options, error) ==
  [NoApi EXCEPT !.fn = fn, !.phase = "threw", !.options = options,
                !.error = error]

\* validateSchema(options), called directly or by assertSchema, up to its
\* call of validateSchemaConstraints: parseModel, providerRegistry.resolve,
\* extractJSONSchema.  An exception of any of them ends the call.
validateSchema(fn, options) ==
  /\ pc \in {"idle", "done"}
  /\ api.phase # "traversing"
  /\ apiCalls < MaxApiCalls
  /\ apiCalls' = apiCalls + 1
  /\ LET parsedModel == parseModel(options.model) IN
     IF ~parsedModel.ok
     THEN /\ api' = ApiThrew(fn, options, PlainError(parsedModel.error))
          /\ UNCHANGED <<tvars, rvars>>
     ELSE LET object == ModelObject(parsedModel.provider, parsedModel.modelId)
              r == resolveResult(registry, lastIndex, object)
              jsonSchemaTarget ==
                IF options.target # "undefined" THEN options.target
                ELSE r.value.jsonSchemaTarget
              jsonSchema == extractJSONSchema(doc, options.schema)
          IN /\ resolves' = resolves + 1
             /\ last' = ResolveOutcome(object, r)
             /\ lastIndex' = r.li
             /\ warnings' = warnings + (IF r.warned THEN 1 ELSE 0)
             /\ UNCHANGED <<registry, regs>>
             /\ IF r.threw
                THEN /\ api' = ApiThrew(fn, options, PlainError(r.error))
                     /\ UNCHANGED tvars
                ELSE IF ~jsonSchema.ok
                THEN /\ api' = [ApiThrew(fn, options, PlainError(jsonSchema.error))
                                  EXCEPT !.resolved = r.value,
                                         !.target = jsonSchemaTarget]
                     /\ UNCHANGED tvars
                ELSE /\ api' = [NoApi EXCEPT !.fn = fn, !.phase = "traversing",
                                             !.options = options,
                                             !.resolved = r.value,
                                             !.target = jsonSchemaTarget,
                                             !.jsonSchema = {jsonSchema.node}]
                     /\ constraints' = r.value
                     /\ pc' = "running"
                     /\ schema' = jsonSchema.node
                     /\ calls' = calls + 1
                     /\ issues' = <<>>
                     /\ visited' = {}
                     /\ runs' = [n \in NodeIds |-> 0]
                     /\ stack' = <<[node |-> NoRef, path |-> <<>>, isRoot |-> TRUE,
                                    todo |-> <<[kind |-> "traverse",
                                                node |-> jsonSchema.node,
                                                path |-> <<>>,
                                                isRoot |-> TRUE]>>]>>
                     /\ UNCHANGED <<history, doc, result>>

\* validateSchema from the return of validateSchemaConstraints on, and the
\* rest of assertSchema when it was the caller.
validateSchemaReturn ==
  /\ api.phase = "traversing"
  /\ pc = "done"
  /\ LET v == validateSchemaResult(result, schema, api.resolved)
         a == assertSchema(api.options, v)
     IN IF api.fn = "validateSchema"
        THEN api' = [api EXCEPT !.phase = "returned", !.validation = {v}]
        ELSE api' = [api EXCEPT !.phase = IF a.threw THEN "threw" ELSE "returned",
                                !.validation = {v},
                                !.returned = a.returned,
                                !.error = a.error]
  /\ UNCHANGED <<tvars, rvars, apiCalls>>

\* Documents for the calls: objects with and without an indicator key,
\* under keywords that the built-in and the caller's rule sets restrict.
AssertDocs ==
  {DocOf(es, ty, pl) :
     es \in EdgeLists(DownEdges({"properties", "anyOf"}), MaxEdges - 1),
     ty \in UniformTypes,
     pl \in Placements("minimum") \cup Placements("additionalProperties")}

AssertModels ==
  {ModelString(OPENAI \o <<"/", "x">>), ModelObject(<<"A">>, <<"x">>),
   ModelString(<<"c", "/", "X">>), ModelString(<<"a", "x">>)}

AssertSchemas ==
  {JsonInput(n) : n \in NodeIds}
  \cup {StandardInput(TRUE, 1), StandardInput(FALSE, 1), OtherInput}

\* The options of a call; target is given only with a schema that has a
\* converter to pass it to.
AssertOptions ==
  {o \in [model : AssertModels, schema : AssertSchemas,
          target : {"undefined", "openapi-3.0"},
          constraints : {{}, {openaiConstraints}}] :
     o.target # "undefined" => o.schema = StandardInput(TRUE, 1)}

NextAssert ==
  \/ \E fn \in {"validateSchema", "assertSchema"}, options \in AssertOptions :
       validateSchema(fn, options)
  \/ Enter
  \/ Revisit
  \/ ArrayChecks
  \/ CustomValidators
  \/ Return
  \/ validateSchemaReturn

\* The module's providerRegistry, as built or after a caller registered the
\* anthropic rule set for "a/x" or a rule set of their own under a regular
\* expression.
InitAssert ==
  /\ doc \in AssertDocs
  /\ constraints = NoValue
  /\ registry \in
       {DefaultRegistry,
        MapSet(DefaultRegistry, StringPattern(<<"a", "/", "x">>),
               anthropicConstraints),
        MapSet(DefaultRegistry, RegExpPattern(6),
               CHOOSE c \in CallerConstraints : c.customValidators # {})}
  /\ lastIndex = [id \in DOMAIN RegExpObjects |-> 0]
  /\ last = Outcome("none", FALSE, NoModel, NoValue)
  /\ regs = 0
  /\ resolves = 0
  /\ warnings = 0
  /\ InitCalls

SpecAssert == InitAssert /\ [][NextAssert]_vars

\* ------------------------------------------------------------------------
\* C14
\* ------------------------------------------------------------------------
AssertEnded == api.fn = "assertSchema" /\ api.phase \in {"returned", "threw"}

\* C14: a finished assertSchema call either returned, and then the
\* traversal found no issue and the value returned is the schema object the
\* caller passed in, or threw; it threw a SchemaAssertionError exactly when
\* its validateSchema call returned a failure, and that error carries the
\* traversal's whole issue list, the provider and modelId of the resolved
\* constraints and the extracted JSON Schema.  An error of validateSchema
\* itself passes through as it is.
C14_AssertSchemaOutcome ==
  AssertEnded =>
    /\ api.phase = "returned" =>
         /\ result = <<>>
         /\ api.returned = {api.options.schema}
         /\ api.error = NoApiError
    /\ api.phase = "threw" => api.returned = {}
    /\ api.error.name = "SchemaAssertionError"
         <=> \E v \in api.validation : ~v.success
    /\ api.phase = "threw"
         <=> (api.validation = {} \/ \E v \in api.validation : ~v.success)
    /\ api.error.name = "SchemaAssertionError" =>
         /\ api.error.issues = result
         /\ Len(result) > 0
         /\ api.error.provider = last.value.provider
         /\ api.error.modelId = last.value.modelId
         /\ api.error.jsonSchema = {schema}
         /\ extractJSONSchema(doc, api.options.schema).node = schema

\* An assertSchema call on a converted Standard Schema that returned its
\* input, which is not the extracted JSON Schema.
C14_Witness ==
  /\ AssertEnded
  /\ api.phase = "returned"
  /\ api.options.schema = StandardInput(TRUE, 1)
  /\ api.returned = {StandardInput(TRUE, 1)}
  /\ api.jsonSchema = {1}
  /\ doc[1].type = "object"
  /\ last.value.provider = OPENAI

\* An assertSchema call that threw a SchemaAssertionError about anyOf at
\* the root.
C14_WitnessThrown ==
  /\ AssertEnded
  /\ api.error.name = "SchemaAssertionError"
  /\ api.error.issues =
       <<Issue(<<>>, "rootAnyOf", "anyOf is not supported at root level")>>
  /\ api.error.jsonSchema = {1}
  /\ api.error.provider = OPENAI
  /\ api.error.modelId = <<"x">>

\* ------------------------------------------------------------------------
\* C15
\* ------------------------------------------------------------------------
ApiEnded == api.phase \in {"returned", "threw"}

\* The model of the call parses, its identifier is matched by no registry
\* entry, and the schema input is one that extractJSONSchema accepts.
UnmatchedValidCall ==
  /\ ApiEnded
  /\ parseModel(api.options.model).ok
  /\ ExactEntries = {} /\ MatchingEntries = {}
  /\ extractJSONSchema(doc, api.options.schema).ok

\* C15: the result of a validateSchema call has success true exactly when
\* the traversal returned the empty issue list, and otherwise success false
\* together with that whole list; its provider and modelId are those of the
\* constraints that resolve returned; and a call whose identifier no
\* registry entry matches returns success for every schema input that
\* extractJSONSchema accepts.
C15_ValidateSchemaResult ==
  /\ \A v \in api.validation :
       /\ v.success <=> result = <<>>
       /\ v.success => v.issues = {}
       /\ ~v.success => v.issues = {result}
       /\ v.jsonSchema = schema
       /\ last.op = "resolve" /\ ~last.threw
       /\ v.provider = last.value.provider
       /\ v.modelId = last.value.modelId
       /\ v.modelId = parseModel(api.options.model).modelId
  /\ (ApiEnded /\ api.fn = "validateSchema" /\ api.phase = "returned")
       => api.validation # {}
  /\ UnmatchedValidCall =>
       /\ api.phase = "returned"
       /\ \E v \in api.validation : v.success
       /\ warnings = 1

\* A validateSchema call that returned a failure with the two issues of the
\* rule set the caller registered for the model.
C15_Witness ==
  /\ api.fn = "validateSchema"
  /\ api.phase = "returned"
  /\ \E v \in api.validation :
       /\ ~v.success
       /\ v.issues =
            {<<Issue(<<>>, "minimum", "minimum constraint is not supported"),
               Issue(<<"properties", "a">>, "minimum",
                     "minimum constraint is not supported")>>}
       /\ v.provider = ANTHROPIC
       /\ v.modelId = <<"x">>

\* A validateSchema call for an unmatched identifier on a document that the
\* built-in rule sets would reject.
C15_WitnessFailOpen ==
  /\ UnmatchedValidCall
  /\ api.fn = "validateSchema"
  /\ doc[1].anyOf # <<>>
  /\ api.jsonSchema = {1}
  /\ \E v \in api.validation : v.success /\ v.provider = <<"c">>

\* ------------------------------------------------------------------------
\* C16
\* ------------------------------------------------------------------------
\* C16: a validateSchema or assertSchema call that was given
\* options.constraints makes no registry lookup (no resolve call, no
\* warning) and validates against those constraints: the traversal runs
\* under their rules, the result carries their provider, and a root anyOf,
\* which the given rule set forbids, is reported whatever the registry
\* holds for the model.
C16_InlineConstraintsUsed ==
  \A c \in api.options.constraints :
    /\ resolves = 0
    /\ warnings = 0
    /\ api.phase = "traversing" =>
         /\ constraints.unsupported = c.unsupported
         /\ constraints.provider = c.provider
    /\ \A v \in api.validation :
         /\ v.provider = c.provider
         /\ (doc[schema].anyOf # <<>>
               /\ \E i \in DOMAIN c.unsupported : c.unsupported[i].feature = "rootAnyOf")
              => ~v.success

\* A call with options.constraints for an unmatched model on a document
\* with a root anyOf: the result comes from the registry's permissive
\* default.
C16_Observed ==
  /\ api.options.constraints = {openaiConstraints}
  /\ api.options.model = ModelString(<<"c", "/", "X">>)
  /\ \E v \in api.validation :
       doc[schema].anyOf # <<>> /\ v.success /\ v.provider = <<"c">>
  /\ resolves = 1
  /\ warnings = 1

\* ------------------------------------------------------------------------
\* C17
\* ------------------------------------------------------------------------
\* The lower-case form of the characters that occur in the inputs.
LowerCaseOf(s) ==
  [i \in DOMAIN s |-> IF s[i] = "A" THEN "a" ELSE IF s[i] = "X" THEN "x" ELSE s[i]]

Slashes(s) == {i \in DOMAIN s : s[i] = "/"}
FirstSlash(s) == CHOOSE i \in Slashes(s) : \A j \in Slashes(s) : i <= j

\* C17: for the model of a resolve call, parseModel on a string without
\* '/' throws; otherwise the string is cut at its first '/', and parseModel
\* throws when the part before or the part after it is empty and else
\* returns the part before it in lower case as provider and the whole part
\* after it, unchanged, as modelId.  On an object it throws when provider or
\* modelId is empty and else returns provider in lower case and modelId
\* unchanged.  The resolve call throws exactly when parseModel does.
C17_ParseModel ==
  last.op = "resolve" =>
    LET m == last.model
        p == parseModel(m)
    IN /\ last.threw <=> ~p.ok
       /\ m.form = "string" =>
            IF Slashes(m.s) = {} THEN ~p.ok /\ last.error.kind = "Expected format"
            ELSE LET i == FirstSlash(m.s)
                     before == SubSeq(m.s, 1, i - 1)
                     after == SubSeq(m.s, i + 1, Len(m.s))
                 IN IF before = <<>> \/ after = <<>>
                    THEN ~p.ok
                    ELSE /\ p.ok
                         /\ p.provider = LowerCaseOf(before)
                         /\ p.modelId = after
       /\ m.form = "object" =>
            IF m.provider = <<>> \/ m.modelId = <<>>
            THEN ~p.ok
            ELSE /\ p.ok
                 /\ p.provider = LowerCaseOf(m.provider)
                 /\ p.modelId = m.modelId

\* A resolve call for "a/x/y": provider a, modelId x/y.
C17_Witness ==
  /\ last.op = "resolve"
  /\ last.model = ModelString(<<"a", "/", "x", "/", "y">>)
  /\ ~last.threw
  /\ last.value.provider = <<"a">>
  /\ last.value.modelId = <<"x", "/", "y">>

\* ------------------------------------------------------------------------
\* C18
\* ------------------------------------------------------------------------
Dotted(p, suffix) == p \o <<".">> \o suffix
CHAT == <<"c", "h", "a", "t">>
RESPONSES == <<"r", "e", "s", "p", "o", "n", "s", "e", "s">>

\* A resolve call that returned, on the default registry with no caller
\* registration.
ResolvedOnDefault ==
  /\ ResolveReturned
  /\ regs = 0
  /\ registry = DefaultRegistry

\* What the claim expects of the resolve call for the parsed model p.
DefaultPatternsHold(p) ==
  /\ p.provider \in {OPENAI, Dotted(OPENAI, CHAT), Dotted(OPENAI, RESPONSES)}
       => last.value = Bind(openaiConstraints, p.modelId)
  /\ p.provider \in {AZURE, Dotted(AZURE, CHAT), Dotted(AZURE, RESPONSES)}
       => IF Contains(p.modelId, OPENAI)
          THEN last.value = Bind(openaiConstraints, p.modelId)
          ELSE last.value = [provider |-> p.provider, modelId |-> p.modelId,
                             unsupported |-> <<>>, customValidators |-> <<>>,
                             jsonSchemaTarget |-> "undefined"]

\* C18: on the default registry with no caller registration, every
\* identifier with provider openai, openai.chat or openai.responses and a
\* non-empty modelId resolves to the OpenAI rule set, labelled openai, with
\* the modelId of the input; an identifier with provider azure, azure.chat
\* or azure.responses resolves to the same exactly when its modelId contains
\* "openai", and otherwise to the permissive default.
C18_DefaultPatterns ==
  ResolvedOnDefault => DefaultPatternsHold(parseModel(last.model))

\* The same for the identifiers whose modelId holds no line terminator.
C18_WithoutLineTerminators ==
  (ResolvedOnDefault
     /\ \A i \in DOMAIN parseModel(last.model).modelId :
          parseModel(last.model).modelId[i] \notin LineTerminators)
    => DefaultPatternsHold(parseModel(last.model))

\* The resolve call for "openai/x\n": the permissive default, after a
\* warning.
C18_Observed ==
  /\ ResolvedOnDefault
  /\ last.model = ModelString(OPENAI \o <<"/", "x", "\n">>)
  /\ last.value.unsupported = <<>>
  /\ last.value.provider = OPENAI
  /\ warnings >= 1

\* The resolve call for an azure deployment named after openai: the OpenAI
\* rule set.
C18_ObservedAzure ==
  /\ ResolvedOnDefault
  /\ last.model = ModelString(AZURE \o <<"/", "m", "y", "-">> \o OPENAI)
  /\ last.value = Bind(openaiConstraints, <<"m", "y", "-">> \o OPENAI)

\* ------------------------------------------------------------------------
\* C19
\* ------------------------------------------------------------------------
Keys(map) == {map[i].pattern : i \in DOMAIN map}

\* The rule set a register call stores for its entry, where the claim
\* names it: the entry's own, or the static one of a built-in provider.
StoresOf(e) ==
  IF e.alias = "" THEN {e.constraints}
  ELSE IF e.alias \in {"openai", "anthropic", "google"}
  THEN {StaticRuleSet(e.alias)}
  ELSE {}

\* C19: the registry never holds two entries under one pattern key, and no
\* step removes or reorders an entry.  A register call that does not throw
\* and whose pattern (the string, or the regex object) is already a key
\* leaves the number of entries alone and replaces that entry's rule set in
\* place; one whose pattern is not yet a key, a new regex object with the
\* source of an old one included, appends one entry.
C19_MapSemantics ==
  [][/\ \A i, j \in DOMAIN registry' :
          i # j => registry'[i].pattern # registry'[j].pattern
     /\ Len(registry') >= Len(registry)
     /\ \A i \in DOMAIN registry : registry'[i].pattern = registry[i].pattern
     /\ (regs' = regs + 1 /\ ~last'.threw) =>
          \A e \in last'.entry :
            IF e.pattern \in Keys(registry)
            THEN /\ Len(registry') = Len(registry)
                 /\ \A i \in DOMAIN registry :
                      IF registry[i].pattern = e.pattern
                      THEN \A c \in StoresOf(e) : registry'[i].constraints = c
                      ELSE registry'[i] = registry[i]
            ELSE /\ Len(registry') = Len(registry) + 1
                 /\ SubSeq(registry', 1, Len(registry)) = registry
                 /\ registry'[Len(registry')].pattern = e.pattern
                 /\ \A c \in StoresOf(e) :
                      registry'[Len(registry')].constraints = c
     /\ (regs' = regs + 1 /\ last'.threw) => registry' = registry
     /\ regs' = regs => registry' = registry]_vars

\* Three register calls on an empty registry: /^a\/.+$/ twice under one
\* regex object, the second replacing the first, and once under another
\* object with the same source.
C19_Witness ==
  /\ regs = 3
  /\ Len(registry) = 2
  /\ registry[1].pattern = RegExpPattern(5)
  /\ registry[2].pattern = RegExpPattern(7)
  /\ RegExpObjects[5] = RegExpObjects[7]
  /\ registry[1].constraints.provider = <<"r", "2">>
  /\ registry[2].constraints.provider = <<"r", "1">>
  /\ last.op = "register"
  /\ \E e \in last.entry : e.pattern = RegExpPattern(5)

\* ------------------------------------------------------------------------
\* Specification of repeated calls: up to MaxRepeats calls of
\* validateSchemaConstraints, one after the other, on nodes of one document
\* graph under one rule set.
\* ------------------------------------------------------------------------
NextCalls ==
  \/ \E root \in NodeIds : CallWithin(root, MaxRepeats)
  \/ Enter
  \/ Revisit
  \/ ArrayChecks
  \/ CustomValidators
  \/ Return

SpecCalls == InitGraph /\ [][NextCalls]_vars

\* ------------------------------------------------------------------------
\* C20
\* ------------------------------------------------------------------------
\* The call has started and has not entered its root yet.
Started ==
  /\ pc = "running"
  /\ Len(stack) = 1
  /\ Len(Top.todo) = 1
  /\ \A n \in NodeIds : runs[n] = 0

\* C20: a call starts with an empty issue list and an empty visited set,
\* whatever the calls before it did; two finished calls on the same node
\* under the same rule set returned equal issue lists, whichever call came
\* between; and a finished call has run the checks of every node of its
\* document once and has reported 'recursive' only for its own repeated
\* descents, also on nodes that an earlier call visited.
C20_CallsShareNoState ==
  /\ Started => issues = <<>> /\ visited = {}
  /\ \A i, j \in DOMAIN history :
       history[i].schema = history[j].schema
         => history[i].result = history[j].result
  /\ Finished =>
       /\ visited = TraversedNodes(schema)
       /\ \A n \in visited : runs[n] = 1
       /\ history[Len(history)] = [schema |-> schema, result |-> result]
       /\ RecursiveUnsupported =>
            Cardinality(IssuesOf(result, "recursive"))
              = Descents(visited) - (Cardinality(visited) - 1)

\* Two finished calls on the same self-referring node, both with the one
\* 'recursive' issue.
C20_Witness ==
  /\ Finished
  /\ calls = 2
  /\ Len(history) = 2
  /\ history[1].schema = history[2].schema
  /\ schema \in FollowedRefs(schema)
  /\ Len(history[1].result) = 1
  /\ history[2].result = history[1].result
  /\ history[2].result[1].feature = "recursive"

\* A finished call on a node that the call before it, on another root,
\* had visited: no issue.
C20_WitnessOtherDocument ==
  /\ Finished
  /\ Len(history) = 2
  /\ history[1].schema # history[2].schema
  /\ history[2].schema \in TraversedNodes(history[1].schema)
  /\ RecursiveUnsupported
  /\ history[1].result = <<>>
  /\ history[2].result = <<>>

\* ------------------------------------------------------------------------
\* C21
\* ------------------------------------------------------------------------
\* The rule set holds a rule for feature f whose context is one of cs.
RuleIn(f, cs) ==
  \E i \in DOMAIN constraints.unsupported :
    /\ constraints.unsupported[i].feature = f
    /\ constraints.unsupported[i].context \in cs

\* The issues of feature f in the returned list that sit at the empty path.
AtRoot(f) == {i \in IssuesOf(result, f) : result[i].path = <<>>}

\* C21: a finished call reports an anyOf on its root as one 'rootAnyOf'
\* issue when a rootAnyOf rule applies to the root, and not at all
\* otherwise, whatever rules the set holds for plain anyOf; an anyOf on
\* any other node it ran the checks of is reported as one 'anyOf' issue
\* exactly when an anyOf rule applies to context 'nested'.
C21_RootAnyOf ==
  Finished =>
    /\ AtRoot("anyOf") = {}
    /\ IssuesOf(result, "rootAnyOf") = AtRoot("rootAnyOf")
    /\ Cardinality(AtRoot("rootAnyOf"))
         = IF Uses(schema, "anyOf") /\ RuleIn("rootAnyOf", {"none", "any", "root"})
           THEN 1 ELSE 0
    /\ \A n \in visited \ {schema} :
         CountAt(n, "anyOf")
           = IF Uses(n, "anyOf") /\ RuleIn("anyOf", {"none", "any", "nested"})
             THEN 1 ELSE 0
    /\ CountAt(schema, "anyOf") = 0

\* A finished call on a root anyOf under a rule set that lists plain anyOf
\* without context and no rootAnyOf: no issue at the root.
C21_Witness ==
  /\ Finished
  /\ Uses(schema, "anyOf")
  /\ RuleIn("anyOf", {"none"})
  /\ ~RuleIn("rootAnyOf", {"none", "any", "root", "nested"})
  /\ \E n \in visited \ {schema} : Uses(n, "anyOf") /\ CountAt(n, "anyOf") = 1
  /\ Cardinality(IssuesOf(result, "anyOf")) = 1

\* ------------------------------------------------------------------------
\* C22
\* ------------------------------------------------------------------------
\* The path at which the finished call ran the checks of node n.
PathsTo(n, f) ==
  {result[i].path : i \in {j \in IssuesOf(result, f) :
                             Follow(schema, result[j].path) = n}}

\* C22: a finished call reports a oneOf on its root as one 'rootOneOf'
\* issue when a rootOneOf rule applies to the root, and otherwise as one
\* 'oneOf' issue with the empty path when a oneOf rule applies to context
\* 'root' (a rule without context does); a oneOf on another node is one
\* 'oneOf' issue at that node's path when a oneOf rule applies to
\* 'nested'.  Under a rule set that lists only plain oneOf without
\* context, a document whose only oneOf is on the root gets exactly one
\* issue.
C22_RootOneOfFallsThrough ==
  Finished =>
    LET rootRule == RuleIn("rootOneOf", {"none", "any", "root"})
    IN /\ IssuesOf(result, "rootOneOf") = AtRoot("rootOneOf")
       /\ Cardinality(AtRoot("rootOneOf"))
            = IF Uses(schema, "oneOf") /\ rootRule THEN 1 ELSE 0
       /\ Cardinality(AtRoot("oneOf"))
            = IF /\ Uses(schema, "oneOf") /\ ~rootRule
                 /\ RuleIn("oneOf", {"none", "any", "root"})
              THEN 1 ELSE 0
       /\ CountAt(schema, "oneOf") = Cardinality(AtRoot("oneOf"))
       /\ \A n \in visited \ {schema} :
            /\ CountAt(n, "oneOf")
                 = IF Uses(n, "oneOf") /\ RuleIn("oneOf", {"none", "any", "nested"})
                   THEN 1 ELSE 0
            /\ \A p \in PathsTo(n, "oneOf") : p # <<>> /\ Follow(schema, p) = n
       /\ ( /\ Len(constraints.unsupported) = 1
            /\ constraints.customValidators = <<>>
            /\ RuleIn("oneOf", {"none"})
            /\ Uses(schema, "oneOf")
            /\ \A n \in visited \ {schema} : ~Uses(n, "oneOf") )
            => /\ Len(result) = 1
               /\ result[1].path = <<>>
               /\ result[1].feature = "oneOf"

\* A finished call under plain oneOf without context on a root with a
\* oneOf whose element has a oneOf: two issues, the root's first.
C22_Witness ==
  /\ Finished
  /\ RuleIn("oneOf", {"none"})
  /\ ~RuleIn("rootOneOf", {"none", "any", "root", "nested"})
  /\ Len(result) = 2
  /\ result[1].path = <<>> /\ result[1].feature = "oneOf"
  /\ result[2].path = <<"oneOf", "0">> /\ result[2].feature = "oneOf"

\* The same rule on a root whose property "a" has a oneOf: one issue, at
\* the property.
C22_WitnessProperty ==
  /\ Finished
  /\ RuleIn("oneOf", {"none"})
  /\ ~Uses(schema, "oneOf")
  /\ Len(result) = 1
  /\ result[1].path = <<"properties", "a">> /\ result[1].feature = "oneOf"

\* ------------------------------------------------------------------------
\* C23
\* ------------------------------------------------------------------------
\* C23: in every state of a call, the activation of the node the call was
\* given is the only one with isRoot true and the empty path: every other
\* activation and every descent lined up has isRoot false and a path that
\* is not empty.  In a finished call, a composition keyword on a node other
\* than the one given is flagged only under a rule that applies to context
\* 'nested', a validator that reports on isRoot reports once, at the empty
\* path, and 'rootAnyOf' and 'rootOneOf' issues have the empty path.
C23_OnlyEntryIsRoot ==
  /\ \A k \in DOMAIN stack :
       /\ k = 2 => stack[k].isRoot /\ stack[k].path = <<>> /\ stack[k].node = schema
       /\ k >= 3 => ~stack[k].isRoot /\ stack[k].path # <<>>
       /\ k >= 2 => \A j \in DOMAIN stack[k].todo :
            stack[k].todo[j].kind = "traverse"
              => ~stack[k].todo[j].isRoot /\ stack[k].todo[j].path # <<>>
  /\ Finished =>
       /\ \A i \in DOMAIN result :
            result[i].feature \in {"rootAnyOf", "rootOneOf", "rootProbe"}
              => result[i].path = <<>>
       /\ \A n \in visited \ {schema} : \A f \in CompositionFeatures :
            CountAt(n, f) > 0 => RuleIn(f, {"none", "any", "nested"})
       /\ (\E i \in DOMAIN constraints.customValidators :
             constraints.customValidators[i] = "rootProbe")
            => Cardinality(IssuesOf(result, "rootProbe")) = 1

\* A finished call with a validator that reports on isRoot, on a root with
\* a nested node: one report, at the empty path.
C23_Witness ==
  /\ Finished
  /\ Cardinality(visited) = 2
  /\ \E i \in DOMAIN constraints.customValidators :
       constraints.customValidators[i] = "rootProbe"
  /\ Cardinality(IssuesOf(result, "rootProbe")) = 1
  /\ \A i \in IssuesOf(result, "rootProbe") : result[i].path = <<>>

\* A finished call on a root anyOf whose element has an anyOf, under
\* rootAnyOf: one issue, at the empty path.
C23_WitnessElement ==
  /\ Finished
  /\ RuleIn("rootAnyOf", {"root"})
  /\ \E n \in visited \ {schema} :
       /\ Uses(n, "anyOf")
       /\ \E i \in DOMAIN doc[schema].anyOf : doc[schema].anyOf[i] = n
  /\ Cardinality(IssuesOf(result, "rootAnyOf")) = 1

\* ------------------------------------------------------------------------
\* C24
\* ------------------------------------------------------------------------
ValidatorFeatures == {"optionalProperties", "enum", "rootProbe"}

\* The issues in the returned list that validators reported at path p, in
\* the order of the list.
ValidatorIssuesAt(p) ==
  LET AtPath(issue) == issue.path = p /\ issue.feature \in ValidatorFeatures
  IN SelectSeq(result, AtPath)

\* What the validators of the rule set return for node n, path p and root
\* flag r when each is called once, first to last.
RECURSIVE ReturnedBy(_, _, _, _)
ReturnedBy(vs, n, p, r) ==
  IF vs = <<>> THEN <<>>
  ELSE RunValidator(Head(vs), n, p, r) \o ReturnedBy(Tail(vs), n, p, r)

\* C24: in a finished call under a rule set whose built-in checks report
\* none of the validators' features, the validator issues at a path are
\* what the validators return for the node at that path, its path and its
\* root flag, one call each in list order, unchanged and in the order
\* returned; and for every node whose checks ran, the list holds as many
\* validator issues as one round of calls returns.
C24_ValidatorsOncePerNode ==
  (Finished /\ constraints.customValidators # <<>>) =>
    /\ \A i \in DOMAIN result :
         result[i].feature \in ValidatorFeatures =>
           LET p == result[i].path
               n == Follow(schema, p)
           IN /\ n \in visited
              /\ ValidatorIssuesAt(p)
                   = ReturnedBy(constraints.customValidators, doc[n], p, p = <<>>)
    /\ \A n \in visited :
         Cardinality({i \in DOMAIN result :
                        /\ result[i].feature \in ValidatorFeatures
                        /\ Follow(schema, result[i].path) = n})
           = Len(ReturnedBy(constraints.customValidators, doc[n], <<>>, n = schema))

\* A finished call with two validators on a root with an optional
\* property: the first validator's issue, with a feature name of its own,
\* then the second's.
C24_Witness ==
  /\ Finished
  /\ constraints.customValidators = <<"rootProbe", "optionalProperties">>
  /\ Len(ValidatorIssuesAt(<<>>)) = 2
  /\ ValidatorIssuesAt(<<>>)[1].feature = "rootProbe"
  /\ ValidatorIssuesAt(<<>>)[2].feature = "optionalProperties"
  /\ Cardinality(visited) = 2

\* ------------------------------------------------------------------------
\* C25: presence, not truthiness, triggers the validation-keyword checks.
\* ------------------------------------------------------------------------
\* The context of the checks of node n: the call's root or a nested node.
ContextOf(n) == IF n = schema THEN "root" ELSE "nested"

\* The validation keywords that node n carries with a defined falsy value.
FalsyKeywords(n) ==
  {k \in ValidationFeatures :
     IsDefined(doc[n].kw[k]) /\ ~IsTruthy(doc[n].kw[k])}

\* C25: in a finished call, every node whose checks ran and that carries a
\* numeric or string validation keyword with a defined value, 0 and the
\* empty string included, has exactly one issue of that feature when a rule
\* makes the feature unsupported for the node, and a node without the
\* keyword has no issue of that feature.
C25_PresenceTriggers ==
  Finished =>
    \A n \in visited : \A k \in ValidationFeatures :
      /\ (IsDefined(doc[n].kw[k])
            /\ RuleIn(k, {"none", "any", ContextOf(n)}))
           => CountAt(n, k) = 1
      /\ ~IsDefined(doc[n].kw[k]) => CountAt(n, k) = 0

\* A finished call on a root with minimum 0 and a property without it under
\* a context-free rule for minimum: one issue, at the root.
C25_Witness ==
  /\ Finished
  /\ "minimum" \in FalsyKeywords(schema)
  /\ RuleIn("minimum", {"none"})
  /\ \E n \in visited \ {schema} : ~IsDefined(doc[n].kw["minimum"])
  /\ Len(result) = 1
  /\ result[1].feature = "minimum"
  /\ result[1].path = <<>>

\* The same for a string keyword: a nested node with the empty pattern.
C25_WitnessString ==
  /\ Finished
  /\ \E n \in visited \ {schema} :
       /\ "pattern" \in FalsyKeywords(n)
       /\ CountAt(n, "pattern") = 1
  /\ ~IsDefined(doc[schema].kw["pattern"])
  /\ Len(result) = 1

\* ------------------------------------------------------------------------
\* C26: the order of the returned issue list.
\* ------------------------------------------------------------------------
\* Every path at or above an issue of the returned list.
IssuePrefixes ==
  UNION {{SubSeq(result[i].path, 1, k) : k \in 0..Len(result[i].path)} :
           i \in DOMAIN result}

ArrayCheckFeatures ==
  {"prefixItems", "contains", "uniqueItems", "minItems", "maxItems"}

\* The place of an issue of the node's own among the steps of one
\* activation; arrayRank is the place of the array checks.
OwnRank(f, arrayRank) ==
  IF f = "recursive" THEN 0
  ELSE IF f \in {"allOf", "not", "anyOf", "rootAnyOf", "oneOf", "rootOneOf"}
    THEN 1
  ELSE IF f \in {"if", "dependentRequired", "dependentSchemas"} THEN 2
  ELSE IF f \in ValidationFeatures THEN 3
  ELSE IF f \in {"patternProperties", "propertyNames"} THEN 4
  ELSE IF f \in ArrayCheckFeatures THEN arrayRank
  ELSE 30

\* The place of a descent by its keyword.
DescentRank(k) ==
  CASE k = "properties" -> 6
    [] k = "additionalProperties" -> 7
    [] k = "items" -> 9
    [] k = "prefixItems" -> 10
    [] k = "allOf" -> 11
    [] k = "anyOf" -> 12
    [] k = "oneOf" -> 13
    [] k = "if" -> 14
    [] k = "then" -> 15
    [] k = "else" -> 16
    [] OTHER -> 17

\* The position of a descent among the descents of its keyword: the index
\* of a list element, the declaration position of a mapping's key.
DescentIndex(n, k, seg) ==
  LET InMap(m) ==
        IF \E i \in DOMAIN m : m[i][1] = seg
        THEN CHOOSE i \in DOMAIN m : m[i][1] = seg ELSE 0
  IN IF k = "properties" THEN InMap(doc[n].properties)
     ELSE IF k = "$defs" THEN InMap(doc[n].defs)
     ELSE IF k = "definitions" THEN InMap(doc[n].definitions)
     ELSE IF \E i \in 0..4 : IdxStr(i) = seg
       THEN CHOOSE i \in 0..4 : IdxStr(i) = seg
     ELSE 0

\* The place of issue x in the activation at path p, p a prefix of x.path.
OrderKey(x, p, arrayRank) ==
  IF Len(x.path) = Len(p) THEN 10 * OwnRank(x.feature, arrayRank)
  ELSE LET k == x.path[Len(p) + 1]
           seg == IF Len(x.path) > Len(p) + 1 THEN x.path[Len(p) + 2] ELSE ""
       IN 10 * DescentRank(k) + DescentIndex(Follow(schema, p), k, seg)

InOrder(arrayRank) ==
  \A p \in IssuePrefixes : \A i, j \in DOMAIN result :
    (i < j /\ IsPrefix(p, result[i].path) /\ IsPrefix(p, result[j].path))
      => OrderKey(result[i], p, arrayRank) <= OrderKey(result[j], p, arrayRank)

\* C26 as stated: for every node of a finished call the issues of its own
\* built-in checks, array checks included, precede the issues of all its
\* descendants, which follow in descent order, and the node's validator
\* issues come last.
C26_ChecksBeforeDescendants == Finished => InOrder(5)

\* C26 as the code has it: the issues of a node's composition,
\* conditional, validation-keyword and object checks come first, then the
\* issues below its properties in declaration order and below
\* additionalProperties, then the issues of its array checks, then the
\* issues below items, prefixItems, allOf, anyOf, oneOf, if, then, else and
\* $defs or definitions, then the node's validator issues.
C26_TraversalOrder == Finished => InOrder(8)

\* A finished call on a node that is object-like and array-like and whose
\* property and prefixItems element refer back to it: the issue of the
\* property precedes the node's own prefixItems issue, the issue below
\* prefixItems follows, the node's validator issue is last.
C26_Witness ==
  /\ Finished
  /\ Len(result) = 4
  /\ result[1].path = <<"properties", "a">> /\ result[1].feature = "recursive"
  /\ result[2].path = <<>> /\ result[2].feature = "prefixItems"
  /\ result[3].path = <<"prefixItems", "0">> /\ result[3].feature = "recursive"
  /\ result[4].path = <<>> /\ result[4].feature = "rootProbe"

\* ------------------------------------------------------------------------
\* C27: a re-registered key keeps its place in the insertion order.
\* ------------------------------------------------------------------------
\* The canonical identifier of a model that parses.
CanonicalOf(model) ==
  parseModel(model).provider \o <<"/">> \o parseModel(model).modelId

\* The regex entries of the registry whose expression matches the model.
MatchingFor(model) ==
  {i \in DOMAIN registry :
     /\ registry[i].pattern.kind = "regex"
     /\ Matches(RegExpObjects[registry[i].pattern.id], CanonicalOf(model))}

\* The register call just made stored its entry under a key that stands in
\* front of a later entry: the key was in the registry before the call.
ReRegisteredAt(i) ==
  /\ last.op = "register"
  /\ ~last.threw
  /\ \E e \in last.entry : registry[i].pattern = e.pattern
  /\ i < Len(registry)

\* C27: after a register call under a key that was already in the
\* registry, the key occurs once, at its old place in front of the entries
\* registered after it, with the rule set of the call; and resolve, for
\* every model with no exact entry that the re-registered regex and a regex
\* entry registered after it both match, returns the rule set of the last
\* matching entry and not the re-registered one.
C27_ReRegisterKeepsPosition ==
  \A i \in DOMAIN registry :
    ReRegisteredAt(i) =>
      /\ \A k \in DOMAIN registry :
           registry[k].pattern = registry[i].pattern => k = i
      /\ \A e \in last.entry : \A c \in StoresOf(e) : registry[i].constraints = c
      /\ \A model \in ModelInputs :
           (/\ parseModel(model).ok
            /\ MapGet(registry, CanonicalOf(model)) = {}
            /\ i \in MatchingFor(model)
            /\ \E j \in MatchingFor(model) : j > i)
             => LET top == CHOOSE j \in MatchingFor(model) :
                              \A k \in MatchingFor(model) : k <= j
                IN resolveResult(registry, lastIndex, model).value
                     = Bind(registry[top].constraints, parseModel(model).modelId)

\* The states in which the claim's case happens without a global
\* expression in the registry: there the statement holds.
C27_WithoutGlobalFlag ==
  (\A k \in DOMAIN registry :
     registry[k].pattern.kind = "regex"
       => ~RegExpObjects[registry[k].pattern.id].global)
    => C27_ReRegisterKeepsPosition

\* The key /^a\/.+$/ re-registered in front of another matching expression
\* that carries a different rule set.
C27_Case ==
  /\ ReRegisteredAt(1)
  /\ Len(registry) = 2
  /\ registry[1].pattern = RegExpPattern(5)
  /\ registry[2].pattern = RegExpPattern(7)
  /\ registry[1].constraints # registry[2].constraints

\* ------------------------------------------------------------------------
\* C28: resolve is read-only.
\* ------------------------------------------------------------------------
\* C28: a resolve call, matching or not, leaves the sequence getAll returns
\* as it was, and the same resolve call made again right after it returns
\* the same rule set (or throws the same error), whatever flags the
\* registered expressions carry.
C28_ResolveReadOnly ==
  [][resolves' = resolves + 1 =>
       /\ registry' = registry
       /\ LET again == resolveResult(registry', lastIndex', last'.model)
          IN /\ again.threw = last'.threw
             /\ ~again.threw => again.value = last'.value]_vars

\* The part of the statement that holds: a resolve call leaves the Map's
\* entries alone, and when no registered expression that the scan tests
\* carries the global flag, the repeated call agrees with the first.
C28_EntriesUntouched ==
  [][resolves' = resolves + 1 =>
       /\ registry' = registry
       /\ (\A i \in DOMAIN registry :
             registry[i].pattern.kind = "regex"
               => ~RegExpObjects[registry[i].pattern.id].global)
            => lastIndex' = lastIndex]_vars

\* A resolve answered by a global expression, the same call repeated being
\* answered differently.
C28_Case ==
  /\ ResolveReturned
  /\ \E i \in MatchingEntries :
       /\ RegExpObjects[registry[i].pattern.id].global
       /\ last.value = Expected(i)
  /\ resolveResult(registry, lastIndex, last.model).value # last.value

\* ------------------------------------------------------------------------
\* C29: one 'recursive' issue per re-encounter, cycle or shared reference.
\* ------------------------------------------------------------------------
\* The traversal is about to reach a node object it has already visited.
Reencounter ==
  /\ Pending
  /\ Item.kind = "traverse"
  /\ Item.node \in visited

\* C29: with 'recursive' unsupported, the step that reaches a node object
\* already visited in the call, through a reference that closes a cycle or
\* a second reference to a shared node, appends exactly one 'recursive'
\* issue at the path of that reference and does nothing else: no check, no
\* descent and no validator call for the node; and no other step adds a
\* 'recursive' issue, so their number is the number of re-encounters.
C29_IssuePerReencounter ==
  [][RecursiveUnsupported =>
       IF Reencounter
       THEN /\ issues' = Append(issues,
                           Issue(Item.path, "recursive",
                                 "Recursive schemas are not supported"))
            /\ stack' = Taken
            /\ visited' = visited
            /\ runs' = runs
            /\ pc' = pc
       ELSE pc' = "running" =>
              Cardinality(IssuesOf(issues', "recursive"))
                = (IF pc = "running"
                   THEN Cardinality(IssuesOf(issues, "recursive")) ELSE 0)]_vars

\* A finished call on an acyclic document whose root refers to one node
\* from two properties: one 'recursive' issue, at the second property, and
\* the shared node was entered once.
C29_Witness ==
  /\ Finished
  /\ RecursiveUnsupported
  /\ \E n \in NodeIds \ {schema} :
       /\ Len(doc[schema].properties) = 2
       /\ doc[schema].properties[1][2] = n
       /\ doc[schema].properties[2][2] = n
       /\ AllRefs(n) = {}
       /\ runs[n] = 1
  /\ Cardinality(IssuesOf(result, "recursive")) = 1
  /\ \E i \in IssuesOf(result, "recursive") :
       result[i].path = <<"properties", "b">>

\* A finished call on a two-node cycle: one issue, where the second node
\* refers back to the root.
C29_WitnessCycle ==
  /\ Finished
  /\ RecursiveUnsupported
  /\ \E n \in NodeIds \ {schema} :
       /\ doc[schema].properties = <<<<"a", n>>>>
       /\ doc[n].properties = <<<<"a", schema>>>>
       /\ runs[n] = 1
  /\ runs[schema] = 1
  /\ Cardinality(IssuesOf(result, "recursive")) = 1
  /\ \E i \in IssuesOf(result, "recursive") :
       result[i].path = <<"properties", "a", "properties", "a">>

\* ------------------------------------------------------------------------
\* C30: the message of an issue of a built-in check.
\* ------------------------------------------------------------------------
\* The features the composition, conditional, validation-keyword, object
\* and array checks report.
CheckFeatures ==
  {"allOf", "not", "anyOf", "rootAnyOf", "oneOf", "rootOneOf",
   "if", "dependentRequired", "dependentSchemas",
   "patternProperties", "propertyNames"}
  \cup ValidationFeatures \cup ArrayCheckFeatures

\* The text a check gives for a feature when no rule supplies one.
DefaultText(f) ==
  CASE f = "rootAnyOf" -> "anyOf is not supported at root level"
    [] f = "rootOneOf" -> "oneOf is not supported at root level"
    [] f = "if" -> "if/then/else conditionals are not supported"
    [] f = "allOf" -> "allOf is not supported"
    [] f = "anyOf" -> "anyOf is not supported"
    [] f = "oneOf" -> "oneOf is not supported"
    [] f = "not" -> "not is not supported"
    [] f = "dependentRequired" -> "dependentRequired is not supported"
    [] f = "dependentSchemas" -> "dependentSchemas is not supported"
    [] f = "patternProperties" -> "patternProperties is not supported"
    [] f = "propertyNames" -> "propertyNames is not supported"
    [] f = "prefixItems" -> "prefixItems is not supported"
    [] f = "contains" -> "contains is not supported"
    [] f = "uniqueItems" -> "uniqueItems is not supported"
    [] f = "minItems" -> "minItems is not supported"
    [] f = "maxItems" -> "maxItems is not supported"
    [] OTHER -> KeywordDefaultMessage(f)

\* The rules of the active rule set that name feature f, by position.
RulesFor(f) ==
  {i \in DOMAIN constraints.unsupported : constraints.unsupported[i].feature = f}

\* C30: every issue of a composition, conditional, validation-keyword,
\* object or array check in the list a call returns carries the message of
\* the first rule of the unsupported list that names the issue's feature,
\* whatever that rule's context and whichever rule made the feature
\* unsupported for the node, and the check's default text when that first
\* rule has no message or the empty one.
C30_MessageOfFirstRule ==
  Finished =>
    \A i \in DOMAIN result :
      result[i].feature \in CheckFeatures =>
        /\ RulesFor(result[i].feature) # {}
        /\ LET first == CHOOSE r \in RulesFor(result[i].feature) :
                          \A q \in RulesFor(result[i].feature) : r <= q
               text == constraints.unsupported[first].message
           IN result[i].message =
                (IF text = "" THEN DefaultText(result[i].feature) ELSE text)

\* A nested anyOf under the rules [{anyOf, root, 'first message'}, {anyOf,
\* nested, 'second message'}]: the second rule makes it unsupported, the
\* issue carries the first rule's message.
C30_Witness ==
  /\ Finished
  /\ constraints.unsupported =
       <<Rule("anyOf", "root", "first message"),
         Rule("anyOf", "nested", "second message")>>
  /\ \E i \in DOMAIN result :
       /\ result[i].feature = "anyOf"
       /\ result[i].path # <<>>
       /\ result[i].message = "first message"

\* An issue under a first rule without a message and a second rule with
\* one: the default text.
C30_WitnessDefault ==
  /\ Finished
  /\ constraints.unsupported =
       <<Rule("minimum", "nested", ""), Rule("minimum", "none", "second message")>>
  /\ \E i \in DOMAIN result :
       /\ result[i].feature = "minimum"
       /\ result[i].message = "minimum is not supported"

\* The issue of the cycle guard is not among these: its text is fixed,
\* whatever message the rule for 'recursive' carries.
C30_CycleGuardText ==
  Finished =>
    \A i \in IssuesOf(result, "recursive") :
      result[i].message = "Recursive schemas are not supported"

C30_CycleGuardCase ==
  /\ Finished
  /\ constraints.unsupported = <<Rule("recursive", "none", "first message")>>
  /\ IssuesOf(result, "recursive") # {}

====
